---- MODULE Spec2Model ----
(***************************************************************************)
(* The editing core of zack: the rope-backed text buffer, the cursor, the  *)
(* mode key handlers and the event pipeline (one mpsc queue, one input     *)
(* thread, one dispatch loop).                                             *)
(*                                                                         *)
(* The text is a sequence of characters; NL is the line break.  Indices    *)
(* are zero-based as in the source, so the character with char index i is  *)
(* rope[i + 1].                                                            *)
(***************************************************************************)
EXTENDS Naturals, Integers, Sequences, FiniteSets, TLC

VARIABLES
    rope,       \* Buffer.rope: the text
    position,   \* Cursor.position: [line, col]
    mode,       \* App.mode: the active Mode object
    running,    \* App.running
    queue,      \* the mpsc channel: events sent and not yet received
    thread,     \* the background EventThread: "alive" or "dead"
    pc,         \* where the dispatch loop is: "recv", "send", "done" ("call" when the
                \* handlers are called directly)
    event,      \* the event the dispatch loop received last
    out,        \* events returned by the last handler and not yet sent
    status,     \* "ok", "panic" (a handler panicked), "recv_error"
    nsent,      \* number of events placed on the queue so far
    nrecv,      \* number of events received from the queue so far
    ninput,     \* number of events produced by the input thread so far
    pre,        \* the text and the cursor as they were before the last handler ran
    path,       \* File.path: None or Some(path)
    focus,      \* the focused component: "Editor" or "FilenamePrompt"
    input,      \* FilenamePrompt.input
    io,         \* what the last handler did on disk: "none", "ok" (written), "err"
                \* (the write failed and was reported on stderr)
    typed,      \* the characters of the character keys that the Insert key handler
                \* has been handed so far, in the order it was handed them
    keys,       \* the keys read so far in a typing session, in the order read
    origin,     \* the text, the cursor and the mode as they were when the first key
                \* of a typing session was read
    elapsed,    \* EventThread::run: last_tick.elapsed() at the top of its loop
    since_tick, \* the time that has passed since the thread last sent a Tick
    forwarded   \* input events the thread has forwarded since it last sent a Tick

vars == <<rope, position, mode, running, queue, thread, pc, event, out, status,
          nsent, nrecv, ninput, pre, path, focus, input, io, typed, keys, origin,
          elapsed, since_tick, forwarded>>

\* the file and the filename prompt
fileVars == <<path, focus, input, io>>

\* the record of a typing session
sessionVars == <<keys, origin>>

\* the clock of the input thread
clockVars == <<elapsed, since_tick, forwarded>>

-----------------------------------------------------------------------------
(* Bounds *)

MaxLen == 3         \* longest text when the handlers are called directly
MaxInputs == 2      \* events the input thread produces in one run
MaxArg == 2         \* largest line or column of an event when the handlers are called directly
MaxName == 2        \* longest input of the filename prompt
MaxPromptInputs == 3 \* keys the input thread forwards in a session at the filename prompt
MaxLate == 1        \* longest time a turn of the input thread's loop takes outside its poll

NL == "\n"
SeedChars == {"a", NL}

Min(a, b) == IF a < b THEN a ELSE b

SeqsUpTo(S, n) == UNION {[1..k -> S] : k \in 0..n}

-----------------------------------------------------------------------------
(* The rope (ropey::Rope), as far as Buffer uses it *)

Position_new(line, col) == [line |-> line, col |-> col]

\* 1-based indices of the line breaks of r
Breaks(r) == {i \in 1..Len(r) : r[i] = NL}

rope_len_chars(r) == Len(r)

rope_len_lines(r) == Cardinality(Breaks(r)) + 1

\* char index of the first character of line l (l <= len_lines; the line one
\* past the last starts at len_chars)
rope_line_to_char(r, l) ==
    IF l = 0 THEN 0
    ELSE IF l >= rope_len_lines(r) THEN Len(r)
    ELSE CHOOSE i \in Breaks(r) : Cardinality({j \in Breaks(r) : j <= i}) = l

\* line l with its line break, if it has one (l < len_lines)
rope_line(r, l) ==
    LET start == rope_line_to_char(r, l)
        stop  == rope_line_to_char(r, l + 1)
    IN  SubSeq(r, start + 1, stop)

rope_insert(r, idx, ch) == SubSeq(r, 1, idx) \o <<ch>> \o SubSeq(r, idx + 1, Len(r))

\* remove(idx - 1 .. idx): removes the character with char index idx - 1
rope_remove(r, idx) == SubSeq(r, 1, idx - 1) \o SubSeq(r, idx + 1, Len(r))

\* Rope::line panics when the line index is out of bounds
LineOutOfBounds(r, l) == l >= rope_len_lines(r)

-----------------------------------------------------------------------------
(* Events (event::Event and event::AppEvent), one record shape for all *)

Ev(kind, op, arg, line, col, flag) ==
    [kind |-> kind, op |-> op, arg |-> arg, line |-> line, col |-> col, flag |-> flag]

Tick == Ev("Tick", "", "", 0, 0, FALSE)
\* a crossterm key event: its code, its character (code "Char") and the CONTROL modifier
Key(code, ch, ctrl) == Ev("Key", code, ch, 0, 0, ctrl)
InsertChar(ch, pos) == Ev("Buffer", "InsertChar", ch, pos.line, pos.col, FALSE)
DeleteChar(pos) == Ev("Buffer", "DeleteChar", "", pos.line, pos.col, FALSE)
InsertNewline(pos) == Ev("Buffer", "InsertNewline", "", pos.line, pos.col, FALSE)
MoveLeft == Ev("Cursor", "MoveLeft", "", 0, 0, FALSE)
MoveRight == Ev("Cursor", "MoveRight", "", 0, 0, FALSE)
MoveUp == Ev("Cursor", "MoveUp", "", 0, 0, FALSE)
MoveDown == Ev("Cursor", "MoveDown", "", 0, 0, FALSE)
MoveToLineStart == Ev("Cursor", "MoveToLineStart", "", 0, 0, FALSE)
MoveToLineEnd == Ev("Cursor", "MoveToLineEnd", "", 0, 0, FALSE)
SetPosition(line, col) == Ev("Cursor", "SetPosition", "", line, col, FALSE)
SetLinePosition(line) == Ev("Cursor", "SetLinePosition", "", line, 0, FALSE)
SetColPosition(col) == Ev("Cursor", "SetColPosition", "", 0, col, FALSE)
ChangeToMode(m, append) == Ev("ChangeToMode", m, "", 0, 0, append)
Quit == Ev("Quit", "", "", 0, 0, FALSE)
Save == Ev("File", "Save", "", 0, 0, FALSE)
SaveAs(p) == Ev("File", "SaveAs", p, 0, 0, FALSE)
ChangeFocus(component) == Ev("ChangeFocus", component, "", 0, 0, FALSE)

EvPos(ev) == Position_new(ev.line, ev.col)

-----------------------------------------------------------------------------
(* Buffer (app/buffer.rs).  A mutating method yields the new rope and the  *)
(* follow-up events it returns.                                            *)

\* the line breaks are counted, not the lines
len_lines_counts_breaks(r) == rope_len_lines(r) - 1

len_lines(r) == rope_len_lines(r)

\* the line break is counted as a visible column
max_visible_col_counts_break(r, pos) == Len(rope_line(r, pos.line))

max_visible_col(r, pos) ==
    LET rope_line_ == rope_line(r, pos.line)
        len == Len(rope_line_)
    IN  IF len = 0 THEN 0
        ELSE IF rope_line_[len] = NL THEN len - 1 ELSE len

clamp_col_position(r, pos) == Min(pos.col, max_visible_col(r, pos))

\* the start of the line is left out: the column is taken as the char index
calculate_char_index_in_first_line(r, pos) ==
    LET line_len == Len(rope_line(r, pos.line))
        clamped_col == Min(pos.col, line_len)
    IN  clamped_col

calculate_char_index(r, pos) ==
    LET line_start == rope_line_to_char(r, pos.line)
        line_len == Len(rope_line(r, pos.line))
        clamped_col == Min(pos.col, line_len)
    IN  line_start + clamped_col

\* the character is put one place too far to the right
insert_char_after(r, ch, pos) ==
    LET char_index == Min(calculate_char_index(r, pos) + 1, Len(r))
    IN  [rope |-> rope_insert(r, char_index, ch), events |-> <<MoveRight>>]

insert_char(r, ch, pos) ==
    LET char_index == calculate_char_index(r, pos)
    IN  [rope |-> rope_insert(r, char_index, ch), events |-> <<MoveRight>>]

\* the column is set to the length of the line above with its line break
merge_with_line_above_keeps_break(r, pos) ==
    LET prev_line_len == Len(rope_line(r, pos.line - 1))
        char_index == calculate_char_index(r, Position_new(pos.line, 0))
        col_pos == prev_line_len
    IN  IF char_index > 0
        THEN [rope |-> rope_remove(r, char_index),
              events |-> <<SetLinePosition(pos.line - 1), SetColPosition(col_pos)>>]
        ELSE [rope |-> r, events |-> <<>>]

merge_with_line_above(r, pos) ==
    LET prev_line_len == Len(rope_line(r, pos.line - 1))
        char_index == calculate_char_index(r, Position_new(pos.line, 0))
        col_pos == IF prev_line_len = 0 THEN 0 ELSE prev_line_len - 1
    IN  IF char_index > 0
        THEN [rope |-> rope_remove(r, char_index),
              events |-> <<SetLinePosition(pos.line - 1), SetColPosition(col_pos)>>]
        ELSE [rope |-> r, events |-> <<>>]

\* the character at the position is removed, not the one before it
delete_char_forward(r, pos) ==
    IF pos.col = 0 /\ pos.line > 0 THEN merge_with_line_above(r, pos)
    ELSE IF pos.col > 0
    THEN LET char_index == calculate_char_index(r, pos)
         IN  IF char_index > 0
             THEN [rope |-> rope_remove(r, Min(char_index + 1, Len(r))),
                   events |-> <<MoveLeft>>]
             ELSE [rope |-> r, events |-> <<>>]
    ELSE [rope |-> r, events |-> <<>>]

\* when there is nothing to delete the event is returned to be tried again
delete_char_retries(r, pos) ==
    IF pos.col = 0 /\ pos.line > 0 THEN merge_with_line_above(r, pos)
    ELSE IF pos.col > 0
    THEN LET char_index == calculate_char_index(r, pos)
         IN  IF char_index > 0
             THEN [rope |-> rope_remove(r, char_index), events |-> <<MoveLeft>>]
             ELSE [rope |-> r, events |-> <<DeleteChar(pos)>>]
    ELSE [rope |-> r, events |-> <<DeleteChar(pos)>>]

delete_char(r, pos) ==
    IF pos.col = 0 /\ pos.line > 0 THEN merge_with_line_above(r, pos)
    ELSE IF pos.col > 0
    THEN LET char_index == calculate_char_index(r, pos)
         IN  IF char_index > 0
             THEN [rope |-> rope_remove(r, char_index), events |-> <<MoveLeft>>]
             ELSE [rope |-> r, events |-> <<>>]
    ELSE [rope |-> r, events |-> <<>>]

\* the cursor is sent down but not to the start of the line
insert_new_line_keeps_col(r, pos) ==
    LET char_index == calculate_char_index(r, pos)
    IN  [rope |-> rope_insert(r, char_index, NL),
         events |-> <<MoveDown>>]

insert_new_line(r, pos) ==
    LET char_index == calculate_char_index(r, pos)
    IN  [rope |-> rope_insert(r, char_index, NL),
         events |-> <<MoveDown, MoveToLineStart>>]

Buffer_handle_event(r, ev) ==
    CASE ev.op = "InsertChar" -> insert_char(r, ev.arg, EvPos(ev))
      [] ev.op = "DeleteChar" -> delete_char(r, EvPos(ev))
      [] ev.op = "InsertNewline" -> insert_new_line(r, EvPos(ev))

\* The handler panics when a rope line lookup is out of bounds: Rope::line in
\* calculate_char_index and in merge_with_line_above.
Buffer_handle_event_panics(r, ev) ==
    CASE ev.op = "InsertChar" -> LineOutOfBounds(r, ev.line)
      [] ev.op = "DeleteChar" ->
            IF ev.col = 0 /\ ev.line > 0
            THEN LineOutOfBounds(r, ev.line - 1) \/ LineOutOfBounds(r, ev.line)
            ELSE ev.col > 0 /\ LineOutOfBounds(r, ev.line)
      [] ev.op = "InsertNewline" -> LineOutOfBounds(r, ev.line)

-----------------------------------------------------------------------------
(* Cursor (app/cursor.rs).  Every method yields the new position; none     *)
(* returns a follow-up event.                                              *)

\* the cursor does not move
move_left_stays(pos) == pos

move_left(pos) ==
    IF pos.col > 0 THEN [pos EXCEPT !.col = pos.col - 1] ELSE pos

\* the bound is compared with <= : the cursor goes one column past the end
move_right_past_end(pos, r) ==
    LET max_col == max_visible_col(r, pos)
    IN  IF pos.col <= max_col THEN [pos EXCEPT !.col = pos.col + 1] ELSE pos

move_right(pos, r) ==
    LET max_col == max_visible_col(r, pos)
    IN  IF pos.col < max_col THEN [pos EXCEPT !.col = pos.col + 1] ELSE pos

move_up(pos, r) ==
    IF pos.line > 0
    THEN LET up == [pos EXCEPT !.line = pos.line - 1]
         IN  [up EXCEPT !.col = clamp_col_position(r, up)]
    ELSE pos

\* the column is not clamped to the line the cursor arrives on
move_down_keeps_col(pos, r) ==
    LET total_lines == len_lines(r)
    IN  IF pos.line + 1 < total_lines
        THEN [pos EXCEPT !.line = pos.line + 1]
        ELSE pos

move_down(pos, r) ==
    LET total_lines == len_lines(r)
    IN  IF pos.line + 1 < total_lines
        THEN LET down == [pos EXCEPT !.line = pos.line + 1]
             IN  [down EXCEPT !.col = clamp_col_position(r, down)]
        ELSE pos

\* the cursor stays in its column
move_to_line_start_keeps_col(pos) == pos

move_to_line_start(pos) == [pos EXCEPT !.col = 0]

\* the end of the line is taken to be after its line break
move_to_line_end_after_break(pos, r) == [pos EXCEPT !.col = Len(rope_line(r, pos.line))]

move_to_line_end(pos, r) == [pos EXCEPT !.col = max_visible_col(r, pos)]

\* the column is not clamped to the new line
set_line_position_keeps_col(pos, line, r) ==
    LET total_lines == len_lines(r) - 1
    IN  [pos EXCEPT !.line = Min(line, total_lines)]

set_line_position(pos, line, r) ==
    LET total_lines == len_lines(r) - 1
        at == [pos EXCEPT !.line = Min(line, total_lines)]
    IN  [at EXCEPT !.col = clamp_col_position(r, at)]

set_col_position(pos, col, r) ==
    LET max_col == max_visible_col(r, pos)
    IN  [pos EXCEPT !.col = Min(col, max_col)]

set_position(pos, line, col, r) ==
    set_col_position(set_line_position(pos, line, r), col, r)

Cursor_handle_event(pos, ev, r) ==
    CASE ev.op = "MoveLeft" -> move_left(pos)
      [] ev.op = "MoveRight" -> move_right(pos, r)
      [] ev.op = "MoveUp" -> move_up(pos, r)
      [] ev.op = "MoveDown" -> move_down(pos, r)
      [] ev.op = "MoveToLineStart" -> move_to_line_start(pos)
      [] ev.op = "MoveToLineEnd" -> move_to_line_end(pos, r)
      [] ev.op = "SetColPosition" -> set_col_position(pos, ev.col, r)
      [] ev.op = "SetLinePosition" -> set_line_position(pos, ev.line, r)
      [] ev.op = "SetPosition" -> set_position(pos, ev.line, ev.col, r)

\* The handler panics when max_visible_col looks up a line that is out of bounds
Cursor_handle_event_panics(pos, ev, r) ==
    CASE ev.op \in {"MoveRight", "MoveToLineEnd", "SetColPosition"} ->
            LineOutOfBounds(r, pos.line)
      [] ev.op = "MoveUp" -> pos.line > 0 /\ LineOutOfBounds(r, pos.line - 1)
      [] OTHER -> FALSE

-----------------------------------------------------------------------------
(* Mode key handlers (app/modes).  Each maps a key, and the cursor         *)
(* position it is handed, to the events it returns.                        *)

\* `a` pushes the mode change before the cursor move
NormalMode_handle_key_mode_first(key) ==
    CASE key.op = "Char" /\ key.arg = "v" -> <<ChangeToMode("Visual", FALSE)>>
      [] key.op = "Char" /\ key.arg = "i" -> <<ChangeToMode("Insert", FALSE)>>
      [] key.op = "Char" /\ key.arg = "a" -> <<ChangeToMode("Insert", TRUE), MoveRight>>
      [] key.op = "Char" /\ key.arg = "h" -> <<MoveLeft>>
      [] key.op = "Char" /\ key.arg = "l" -> <<MoveRight>>
      [] key.op = "Char" /\ key.arg = "j" -> <<MoveDown>>
      [] key.op = "Char" /\ key.arg = "k" -> <<MoveUp>>
      [] (key.op = "Char" /\ key.arg = "q") \/ key.op = "Esc" -> <<Quit>>
      [] key.op = "Char" /\ key.arg \in {"c", "C"} /\ key.flag -> <<Quit>>
      [] OTHER -> <<>>

\* the CONTROL modifier is not looked at: Ctrl-C is an ordinary `c`
NormalMode_handle_key_no_ctrl(key) ==
    CASE key.op = "Char" /\ key.arg = "v" -> <<ChangeToMode("Visual", FALSE)>>
      [] key.op = "Char" /\ key.arg = "i" -> <<ChangeToMode("Insert", FALSE)>>
      [] key.op = "Char" /\ key.arg = "a" -> <<MoveRight, ChangeToMode("Insert", TRUE)>>
      [] key.op = "Char" /\ key.arg = "h" -> <<MoveLeft>>
      [] key.op = "Char" /\ key.arg = "l" -> <<MoveRight>>
      [] key.op = "Char" /\ key.arg = "j" -> <<MoveDown>>
      [] key.op = "Char" /\ key.arg = "k" -> <<MoveUp>>
      [] (key.op = "Char" /\ key.arg = "q") \/ key.op = "Esc" -> <<Quit>>
      [] OTHER -> <<>>

NormalMode_handle_key(key) ==
    CASE key.op = "Char" /\ key.arg = "v" -> <<ChangeToMode("Visual", FALSE)>>
      [] key.op = "Char" /\ key.arg = "i" -> <<ChangeToMode("Insert", FALSE)>>
      [] key.op = "Char" /\ key.arg = "a" -> <<MoveRight, ChangeToMode("Insert", TRUE)>>
      [] key.op = "Char" /\ key.arg = "h" -> <<MoveLeft>>
      [] key.op = "Char" /\ key.arg = "l" -> <<MoveRight>>
      [] key.op = "Char" /\ key.arg = "j" -> <<MoveDown>>
      [] key.op = "Char" /\ key.arg = "k" -> <<MoveUp>>
      [] (key.op = "Char" /\ key.arg = "q") \/ key.op = "Esc" -> <<Quit>>
      [] key.op = "Char" /\ key.arg \in {"c", "C"} /\ key.flag -> <<Quit>>
      [] OTHER -> <<>>

\* Esc leaves Insert mode without the MoveLeft
InsertMode_handle_key_esc_stays(key, current_cursor_position) ==
    CASE key.op = "Esc" -> <<ChangeToMode("Normal", FALSE)>>
      [] key.op = "Left" -> <<MoveLeft>>
      [] key.op = "Right" -> <<MoveRight>>
      [] key.op = "Up" -> <<MoveUp>>
      [] key.op = "Down" -> <<MoveDown>>
      [] key.op = "Backspace" -> <<DeleteChar(current_cursor_position)>>
      [] key.op = "Char" -> <<InsertChar(key.arg, current_cursor_position)>>
      [] key.op = "Enter" -> <<InsertNewline(current_cursor_position)>>
      [] OTHER -> <<>>

InsertMode_handle_key(key, current_cursor_position) ==
    CASE key.op = "Esc" -> <<MoveLeft, ChangeToMode("Normal", FALSE)>>
      [] key.op = "Left" -> <<MoveLeft>>
      [] key.op = "Right" -> <<MoveRight>>
      [] key.op = "Up" -> <<MoveUp>>
      [] key.op = "Down" -> <<MoveDown>>
      [] key.op = "Backspace" -> <<DeleteChar(current_cursor_position)>>
      [] key.op = "Char" -> <<InsertChar(key.arg, current_cursor_position)>>
      [] key.op = "Enter" -> <<InsertNewline(current_cursor_position)>>
      [] OTHER -> <<>>

\* Visual mode interprets its keys as Normal mode does
VisualMode_handle_key_as_normal(key, current_cursor_position) ==
    IF key.op = "Esc" THEN <<ChangeToMode("Normal", FALSE)>>
    ELSE NormalMode_handle_key(key)

VisualMode_handle_key(key, current_cursor_position) ==
    IF key.op = "Esc" THEN <<ChangeToMode("Normal", FALSE)>> ELSE <<>>

\* Mode::handle_key of the active mode object
Mode_handle_key(m, key, current_cursor_position) ==
    CASE m = "Normal" -> NormalMode_handle_key(key)
      [] m = "Insert" -> InsertMode_handle_key(key, current_cursor_position)
      [] m = "Visual" -> VisualMode_handle_key(key, current_cursor_position)

\* EditorMode::Visual installs the Normal mode object
change_mode_visual_as_normal(new_mode) ==
    CASE new_mode = "Insert" -> "Insert"
      [] new_mode = "Normal" -> "Normal"
      [] new_mode = "Visual" -> "Normal"

\* the mode object change_mode installs for an EditorMode value
change_mode(new_mode) ==
    CASE new_mode = "Insert" -> "Insert"
      [] new_mode = "Normal" -> "Normal"
      [] new_mode = "Visual" -> "Visual"

-----------------------------------------------------------------------------
(* File (app/file.rs).  A path is a string, as PathBuf::from keeps the     *)
(* string it is given.  std::fs::write either succeeds or fails: write_ok  *)
(* is its outcome.                                                         *)

None == [some |-> FALSE, val |-> ""]

Some(v) == [some |-> TRUE, val |-> v]

File_new(p) == p

\* write_to_file: Ok(()) or the io::Error of std::fs::write
write_to_file(p, r, write_ok) == IF write_ok THEN "Ok" ELSE "Err"

\* a failed write is tried again: Save is returned as a follow-up
save_file_retries(p, r, write_ok) ==
    IF p.some
    THEN IF write_to_file(p.val, r, write_ok) = "Ok"
         THEN [events |-> <<>>, io |-> "ok"]
         ELSE [events |-> <<Save>>, io |-> "err"]
    ELSE [events |-> <<ChangeFocus("FilenamePrompt")>>, io |-> "none"]

\* save_file: the events it returns and what it did on disk
save_file(p, r, write_ok) ==
    IF p.some
    THEN IF write_to_file(p.val, r, write_ok) = "Ok"
         THEN [events |-> <<>>, io |-> "ok"]
         ELSE [events |-> <<>>, io |-> "err"]
    ELSE [events |-> <<ChangeFocus("FilenamePrompt")>>, io |-> "none"]

\* SaveAs writes first and takes the path over only when the write succeeded
File_handle_event_path_on_success(p, ev, r, write_ok) ==
    CASE ev.op = "Save" ->
            LET res == save_file(p, r, write_ok)
            IN  [path |-> p, events |-> res.events, io |-> res.io]
      [] ev.op = "SaveAs" ->
            LET res == save_file(Some(ev.arg), r, write_ok)
            IN  [path |-> IF res.io = "ok" THEN Some(ev.arg) ELSE p,
                 events |-> res.events, io |-> res.io]

File_handle_event(p, ev, r, write_ok) ==
    CASE ev.op = "Save" ->
            LET res == save_file(p, r, write_ok)
            IN  [path |-> p, events |-> res.events, io |-> res.io]
      [] ev.op = "SaveAs" ->
            LET res == save_file(Some(ev.arg), r, write_ok)
            IN  [path |-> Some(ev.arg), events |-> res.events, io |-> res.io]

-----------------------------------------------------------------------------
(* The filename prompt (ui/components/filename_prompt.rs) *)

FilenamePrompt_new == ""

\* String::pop: the string without its last character; nothing to remove from
\* the empty string
String_pop(str) == IF str = "" THEN str ELSE SubSeq(str, 1, Len(str) - 1)

\* Enter returns the focus change before the SaveAs
FilenamePrompt_handle_key_focus_first(inp, key) ==
    CASE key.op = "Esc" -> [input |-> "", events |-> <<ChangeFocus("Editor")>>]
      [] key.op = "Enter" ->
            IF inp = "" THEN [input |-> inp, events |-> <<>>]
            ELSE [input |-> "",
                  events |-> <<ChangeFocus("Editor"), SaveAs(inp)>>]
      [] key.op = "Backspace" -> [input |-> String_pop(inp), events |-> <<>>]
      [] key.op = "Char" -> [input |-> inp \o key.arg, events |-> <<>>]
      [] OTHER -> [input |-> inp, events |-> <<>>]

FilenamePrompt_handle_key(inp, key) ==
    CASE key.op = "Esc" -> [input |-> "", events |-> <<ChangeFocus("Editor")>>]
      [] key.op = "Enter" ->
            IF inp = "" THEN [input |-> inp, events |-> <<>>]
            ELSE [input |-> "",
                  events |-> <<SaveAs(inp), ChangeFocus("Editor")>>]
      [] key.op = "Backspace" -> [input |-> String_pop(inp), events |-> <<>>]
      [] key.op = "Char" -> [input |-> inp \o key.arg, events |-> <<>>]
      [] OTHER -> [input |-> inp, events |-> <<>>]

-----------------------------------------------------------------------------
(* The queue (event/event_handler.rs).  An entry carries, besides the      *)
(* event, its sequence number on the queue and the sequence number of the  *)
(* event whose handler emitted it (0 for the input thread's events).       *)

Entry(id, cause, ev) == [id |-> id, cause |-> cause, ev |-> ev]

NoEntry == Entry(0, 0, Tick)

\* a follow-up is put at the head of the queue instead of its tail
EventHandler_send_front(q, entry) == <<entry>> \o q

\* EventHandler::send wraps the AppEvent and sends it on the handler's own
\* sender: the event goes to the tail of the channel
EventHandler_send(q, entry) == Append(q, entry)

\* an input event is lost when the loop has not yet taken the one before it
EventThread_send_lossy(q, entry) == IF q # <<>> THEN q ELSE Append(q, entry)

\* EventThread::send sends on the thread's clone of the sender
EventThread_send(q, entry) == Append(q, entry)

\* The senders of the channel that are alive: EventHandler keeps `sender` for
\* as long as the App lives; the clone is dropped when the thread ends.
LiveSenders(th) == {"handler"} \cup (IF th = "alive" THEN {"thread"} ELSE {})

\* EventHandler::next, a blocking recv: the head of the queue; an error when the
\* queue is empty and no sender is left; otherwise it blocks.
EventHandler_next(q, th) ==
    IF q # <<>> THEN [tag |-> "Ok", entry |-> Head(q)]
    ELSE IF LiveSenders(th) = {} THEN [tag |-> "Err", entry |-> NoEntry]
    ELSE [tag |-> "Blocked", entry |-> NoEntry]

-----------------------------------------------------------------------------
(* The dispatch loop (App).  App_dispatch is what handle_events does with  *)
(* one received event: the new state of the editor, the follow-up events   *)
(* to enqueue, and whether the handler panicked.                           *)

Effect(r, pos, m, run, events, panic) ==
    [rope |-> r, position |-> pos, mode |-> m, running |-> run,
     events |-> events, panic |-> panic]

\* the tick hook takes the cursor back to the start of the text
App_tick_homes_cursor(r, pos, m) == Effect(r, Position_new(0, 0), m, TRUE, <<>>, FALSE)

\* Event::Tick => self.tick()
App_tick(r, pos, m) == Effect(r, pos, m, TRUE, <<>>, FALSE)

\* a raw key goes to the active mode's key handler with the cursor position
App_handle_key_event(key, r, pos, m) ==
    Effect(r, pos, m, TRUE, Mode_handle_key(m, key, pos), FALSE)

\* AppEvent::Buffer => the buffer applies it and returns the follow-ups
App_buffer_event(ev, r, pos, m) ==
    IF Buffer_handle_event_panics(r, ev)
    THEN Effect(r, pos, m, TRUE, <<>>, TRUE)
    ELSE LET res == Buffer_handle_event(r, ev)
         IN  Effect(res.rope, pos, m, TRUE, res.events, FALSE)

\* AppEvent::Cursor => the cursor applies it against the buffer
App_cursor_event(ev, r, pos, m) ==
    IF Cursor_handle_event_panics(pos, ev, r)
    THEN Effect(r, pos, m, TRUE, <<>>, TRUE)
    ELSE Effect(r, Cursor_handle_event(pos, ev, r), m, TRUE, <<>>, FALSE)

\* AppEvent::ChangeToMode => change_mode
App_change_mode(ev, r, pos, m) == Effect(r, pos, change_mode(ev.op), TRUE, <<>>, FALSE)

\* AppEvent::Quit => self.quit()
App_quit(r, pos, m) == Effect(r, pos, m, FALSE, <<>>, FALSE)

App_dispatch(ev, r, pos, m) ==
    CASE ev.kind = "Tick" -> App_tick(r, pos, m)
      [] ev.kind = "Key" -> App_handle_key_event(ev, r, pos, m)
      [] ev.kind = "Buffer" -> App_buffer_event(ev, r, pos, m)
      [] ev.kind = "Cursor" -> App_cursor_event(ev, r, pos, m)
      [] ev.kind = "ChangeToMode" -> App_change_mode(ev, r, pos, m)
      [] ev.kind = "Quit" -> App_quit(r, pos, m)

\* the file and the filename prompt after an event
Ui(p, f, inp, w) == [path |-> p, focus |-> f, input |-> inp, io |-> w]

\* AppEvent::File => the file applies it, reading the buffer
App_file_event(ev, r, pos, m, u, write_ok) ==
    LET res == File_handle_event(u.path, ev, r, write_ok)
    IN  [ed |-> Effect(r, pos, m, TRUE, res.events, FALSE),
         ui |-> Ui(res.path, u.focus, u.input, res.io)]

\* AppEvent::ChangeFocus => the named component gets the focus
App_change_focus(ev, r, pos, m, u) ==
    [ed |-> Effect(r, pos, m, TRUE, <<>>, FALSE),
     ui |-> Ui(u.path, ev.op, u.input, "none")]

\* a raw key while the filename prompt has the focus goes to the prompt
App_prompt_key_event(key, r, pos, m, u) ==
    LET res == FilenamePrompt_handle_key(u.input, key)
    IN  [ed |-> Effect(r, pos, m, TRUE, res.events, FALSE),
         ui |-> Ui(u.path, u.focus, res.input, "none")]

\* a raw key goes to the mode handlers whatever component has the focus
App_route_ignores_focus(ev, r, pos, m, u, write_ok) ==
    CASE ev.kind = "File" -> App_file_event(ev, r, pos, m, u, write_ok)
      [] ev.kind = "ChangeFocus" -> App_change_focus(ev, r, pos, m, u)
      [] OTHER -> [ed |-> App_dispatch(ev, r, pos, m),
                   ui |-> Ui(u.path, u.focus, u.input, "none")]

\* handle_events with the file and the focus: FileEvent and ChangeFocus go to
\* their collaborators, a raw key goes to the component that has the focus,
\* everything else is routed as in App_dispatch
App_route(ev, r, pos, m, u, write_ok) ==
    CASE ev.kind = "File" -> App_file_event(ev, r, pos, m, u, write_ok)
      [] ev.kind = "ChangeFocus" -> App_change_focus(ev, r, pos, m, u)
      [] ev.kind = "Key" /\ u.focus = "FilenamePrompt" ->
            App_prompt_key_event(ev, r, pos, m, u)
      [] OTHER -> [ed |-> App_dispatch(ev, r, pos, m),
                   ui |-> Ui(u.path, u.focus, u.input, "none")]

\* the character the Insert key handler is asked to insert when the event is
\* dispatched: that of a character key, with the focus on the editor
TypedChars(ev, m, f) ==
    IF ev.kind = "Key" /\ ev.op = "Char" /\ m = "Insert" /\ f = "Editor"
    THEN <<ev.arg>> ELSE <<>>

\* the outcomes std::fs::write can have when the event is applied
WriteOutcomes(ev) == IF ev.kind = "File" THEN BOOLEAN ELSE {TRUE}

Snapshot ==
    [rope |-> rope, position |-> position, mode |-> mode,
     path |-> path, focus |-> focus, input |-> input]

NoSnapshot ==
    [rope |-> <<>>, position |-> Position_new(0, 0), mode |-> "Normal",
     path |-> None, focus |-> "Editor", input |-> ""]

\* the loop does not look at `running`: it draws and receives again
App_run_forever(run) == "recv"

\* App::run: `while self.running { terminal.draw(..)?; self.handle_events()?; }`.
\* Where the loop goes when handle_events has returned Ok(()): it draws and
\* receives again while running holds, and returns otherwise.
App_run(run) == IF run THEN "recv" ELSE "done"

\* terminal.draw at the head of the loop: the renderer has just been handed
\* the text, the cursor and the mode as they are, and the loop is about to
\* receive.  Only the loop changes them, so what was drawn is the current state.
Rendered == pc = "recv" /\ status = "ok"

\* App::handle_events: receive one event and apply it
App_handle_events ==
    /\ pc = "recv"
    /\ status = "ok"
    /\ LET res == EventHandler_next(queue, thread)
       IN  /\ res.tag # "Blocked"
           /\ IF res.tag = "Err"
              THEN /\ status' = "recv_error"
                   /\ pc' = "done"
                   /\ UNCHANGED <<rope, position, mode, running, queue, event, out,
                                  nrecv, pre, path, focus, input, io, typed>>
              ELSE \E write_ok \in WriteOutcomes(res.entry.ev) :
                   \E all \in {App_route(res.entry.ev, rope, position, mode,
                                         Ui(path, focus, input, io), write_ok)} :
                   LET eff == all.ed
                   IN  /\ queue' = Tail(queue)
                       /\ path' = all.ui.path
                       /\ focus' = all.ui.focus
                       /\ input' = all.ui.input
                       /\ io' = all.ui.io
                       /\ typed' = typed \o TypedChars(res.entry.ev, mode, focus)
                       /\ nrecv' = nrecv + 1
                       /\ event' = res.entry
                       /\ pre' = Snapshot
                       /\ rope' = eff.rope
                       /\ position' = eff.position
                       /\ mode' = eff.mode
                       /\ running' = (running /\ eff.running)
                       /\ out' = eff.events
                       /\ status' = IF eff.panic THEN "panic" ELSE "ok"
                       /\ pc' = IF eff.panic THEN "done"
                                ELSE IF eff.events # <<>> THEN "send"
                                ELSE App_run(running /\ eff.running)
    /\ UNCHANGED <<thread, nsent, ninput>>
    /\ UNCHANGED sessionVars
    /\ UNCHANGED clockVars

\* the loop sends the follow-ups one by one, in the order returned
App_send_follow_up ==
    /\ pc = "send"
    /\ status = "ok"
    /\ queue' = EventHandler_send(queue, Entry(nsent + 1, event.id, Head(out)))
    /\ nsent' = nsent + 1
    /\ out' = Tail(out)
    /\ pc' = IF Tail(out) # <<>> THEN "send" ELSE App_run(running)
    /\ UNCHANGED <<rope, position, mode, running, thread, event, status, nrecv,
                   ninput, pre>>
    /\ UNCHANGED fileVars
    /\ UNCHANGED typed
    /\ UNCHANGED sessionVars
    /\ UNCHANGED clockVars

-----------------------------------------------------------------------------
(* The input thread (EventThread::run) *)

InputKeys ==
    {Key(c, "", FALSE) : c \in {"Esc", "Enter", "Backspace", "Left", "Right", "Up",
                                "Down"}}
    \cup {Key("Char", ch, FALSE) : ch \in {"i", "a", "v", "q"}}
    \cup {Key("Char", "c", TRUE)}

ThreadRuns == thread = "alive" /\ pc # "done" /\ ninput < MaxInputs

\* event::poll returned true and event::read a key: it is forwarded
EventThread_run_input ==
    /\ ThreadRuns
    /\ \E k \in InputKeys : queue' = EventThread_send(queue, Entry(nsent + 1, 0, k))
    /\ nsent' = nsent + 1
    /\ ninput' = ninput + 1
    /\ UNCHANGED <<rope, position, mode, running, thread, pc, event, out, status,
                   nrecv, pre>>
    /\ UNCHANGED fileVars
    /\ UNCHANGED typed
    /\ UNCHANGED sessionVars
    /\ UNCHANGED clockVars

\* the tick interval has elapsed: a Tick is sent
EventThread_run_tick ==
    /\ ThreadRuns
    /\ queue' = EventThread_send(queue, Entry(nsent + 1, 0, Tick))
    /\ nsent' = nsent + 1
    /\ ninput' = ninput + 1
    /\ UNCHANGED <<rope, position, mode, running, thread, pc, event, out, status,
                   nrecv, pre>>
    /\ UNCHANGED fileVars
    /\ UNCHANGED typed
    /\ UNCHANGED sessionVars
    /\ UNCHANGED clockVars

\* event::poll or event::read failed: run returns the error and the thread ends
EventThread_run_fail ==
    /\ thread = "alive"
    /\ pc # "done"
    /\ thread' = "dead"
    /\ UNCHANGED <<rope, position, mode, running, queue, pc, event, out, status,
                   nsent, nrecv, ninput, pre>>
    /\ UNCHANGED fileVars
    /\ UNCHANGED typed
    /\ UNCHANGED sessionVars
    /\ UNCHANGED clockVars

-----------------------------------------------------------------------------
(* The input thread with its clock.  Time is counted in units of which the *)
(* tick interval has TickInterval.                                         *)

\* tick_interval = Duration::from_secs_f64(1.0 / TICK_FPS)
TickInterval == 2

\* Duration::saturating_sub
saturating_sub(a, b) == IF a > b THEN a - b ELSE 0

\* last_tick is also set when an input event has been forwarded: the Tick is
\* due a whole interval after the last input
EventThread_run_turn_input_resets(el, ready, wait, late) ==
    LET timeout == saturating_sub(TickInterval, el)
        ticks == timeout = 0
        since == IF ticks THEN 0 ELSE el
        polled == IF ready THEN Min(wait, timeout) ELSE timeout
    IN  [tick |-> ticks, input |-> ready, spent |-> polled + late,
         elapsed |-> IF ready THEN late ELSE since + polled + late]

\* One turn of the loop of EventThread::run.  el is last_tick.elapsed() at the
\* top of the loop; event::poll(timeout) returns true after `wait` when an event
\* is ready within the timeout and false after the timeout otherwise; the rest
\* of the turn takes `late`.  Yields whether a Tick is sent, whether an input
\* event is forwarded, the time the turn takes and last_tick.elapsed() at the
\* top of the next turn.
EventThread_run_turn(el, ready, wait, late) ==
    LET timeout == saturating_sub(TickInterval, el)
        ticks == timeout = 0
        since == IF ticks THEN 0 ELSE el
        polled == IF ready THEN Min(wait, timeout) ELSE timeout
    IN  [tick |-> ticks, input |-> ready, spent |-> polled + late,
         elapsed |-> since + polled + late]

\* the keys that arrive while the clock is watched
ClockKeys == {Key("Down", "", FALSE), Key("Char", "i", FALSE)}

\* EventThread::run, one turn of its loop
EventThread_run ==
    /\ ThreadRuns
    /\ \E ready \in BOOLEAN, wait \in 0..TickInterval, late \in 0..MaxLate,
          k \in ClockKeys :
        LET turn == EventThread_run_turn(elapsed, ready, wait, late)
            ticked == IF turn.tick
                      THEN EventThread_send(queue, Entry(nsent + 1, 0, Tick))
                      ELSE queue
            nticked == IF turn.tick THEN nsent + 1 ELSE nsent
            nread == IF turn.input THEN 1 ELSE 0
        IN  /\ queue' = IF turn.input
                        THEN EventThread_send(ticked, Entry(nticked + 1, 0, k))
                        ELSE ticked
            /\ nsent' = nticked + nread
            /\ ninput' = ninput + (nticked - nsent) + nread
            /\ elapsed' = turn.elapsed
            /\ since_tick' = (IF turn.tick THEN 0 ELSE since_tick) + turn.spent
            /\ forwarded' = (IF turn.tick THEN 0 ELSE forwarded) + nread
    /\ UNCHANGED <<rope, position, mode, running, thread, pc, event, out, status,
                   nrecv, pre>>
    /\ UNCHANGED fileVars
    /\ UNCHANGED typed
    /\ UNCHANGED sessionVars

-----------------------------------------------------------------------------
(* The pipeline *)

\* the texts a session of the pipeline starts from: empty, one character, two
\* empty lines
Seeds == {<<>>, <<"a">>, <<NL>>}

\* the cursor positions that are valid for the text r
ValidPositions(r) ==
    {Position_new(l, c) : l \in 0..(len_lines(r) - 1), c \in 0..Len(r)}
    \cap {p \in [line : 0..Len(r), col : 0..Len(r)] : p.col <= max_visible_col(r, p)}

\* A session at rest: the queue is empty and the loop waits in recv.  The text
\* is any text the buffer is seeded with (Buffer::new(file_content)); App::new
\* leaves the cursor at (0, 0) in Normal mode, and the keys j, l, i and v,
\* handled one at a time, take it to every valid position and to every mode.
Init ==
    /\ rope \in Seeds
    /\ position \in ValidPositions(rope)
    /\ mode \in {"Normal", "Insert", "Visual"}
    /\ running = TRUE
    /\ queue = <<>>
    /\ thread = "alive"
    /\ pc = "recv"
    /\ event = NoEntry
    /\ out = <<>>
    /\ status = "ok"
    /\ nsent = 0
    /\ nrecv = 0
    /\ ninput = 0
    /\ pre = NoSnapshot
    /\ path = File_new(None)
    /\ focus = "Editor"
    /\ input = FilenamePrompt_new
    /\ io = "none"
    /\ typed = <<>>
    /\ keys = <<>>
    /\ origin = NoSnapshot
    /\ elapsed = 0
    /\ since_tick = 0
    /\ forwarded = 0

Next ==
    \/ App_handle_events
    \/ App_send_follow_up
    \/ EventThread_run_input
    \/ EventThread_run_tick
    \/ EventThread_run_fail

Spec == Init /\ [][Next]_vars

\* the pipeline with the input thread's clock
NextClock ==
    \/ App_handle_events
    \/ App_send_follow_up
    \/ EventThread_run

SpecClock == Init /\ [][NextClock]_vars

-----------------------------------------------------------------------------
(* The pipeline with a save under way: a FileEvent::Save has been sent and *)
(* is the one event on the queue, the file has a path or none, and the     *)
(* input thread goes on forwarding keys.                                   *)

InitSave ==
    /\ rope = <<>>
    /\ position = Position_new(0, 0)
    /\ mode \in {"Normal", "Insert"}
    /\ running = TRUE
    /\ queue = EventHandler_send(<<>>, Entry(1, 0, Save))
    /\ thread = "alive"
    /\ pc = "recv"
    /\ event = NoEntry
    /\ out = <<>>
    /\ status = "ok"
    /\ nsent = 1
    /\ nrecv = 0
    /\ ninput = 0
    /\ pre = NoSnapshot
    /\ path \in {File_new(None), File_new(Some("f"))}
    /\ focus = "Editor"
    /\ input = FilenamePrompt_new
    /\ io = "none"
    /\ typed = <<>>
    /\ keys = <<>>
    /\ origin = NoSnapshot
    /\ elapsed = 0
    /\ since_tick = 0
    /\ forwarded = 0

SpecSave == InitSave /\ [][Next]_vars

-----------------------------------------------------------------------------
(* A save through the filename prompt: a FileEvent::Save is on the queue   *)
(* and the input thread forwards keys whenever they arrive, among them the *)
(* keys of a file name and Enter.  The dispatch loop, a thread of its own, *)
(* takes its next step whenever it has one.                                *)

PromptSessionKeys ==
    {Key(c, "", FALSE) : c \in {"Esc", "Enter"}} \cup {Key("Char", "q", FALSE)}

\* event::poll returned true and event::read one of these keys: it is forwarded
EventThread_run_input_prompt ==
    /\ thread = "alive"
    /\ pc # "done"
    /\ ninput < MaxPromptInputs
    /\ \E k \in PromptSessionKeys :
        queue' = EventThread_send(queue, Entry(nsent + 1, 0, k))
    /\ nsent' = nsent + 1
    /\ ninput' = ninput + 1
    /\ UNCHANGED <<rope, position, mode, running, thread, pc, event, out, status,
                   nrecv, pre>>
    /\ UNCHANGED fileVars
    /\ UNCHANGED typed
    /\ UNCHANGED sessionVars
    /\ UNCHANGED clockVars

NextPrompt ==
    \/ App_handle_events
    \/ App_send_follow_up
    \/ EventThread_run_input_prompt

SpecPrompt ==
    /\ InitSave
    /\ [][NextPrompt]_vars
    /\ WF_vars(App_handle_events)
    /\ WF_vars(App_send_follow_up)

-----------------------------------------------------------------------------
(* A typing session: the keys are read one at a time, each when the whole  *)
(* cascade of the key before it has been applied (the queue is empty and   *)
(* the loop waits in recv).  `keys` records the keys read, `origin` the    *)
(* text, the cursor and the mode when the first of them was read.          *)

TypingKeys ==
    {Key(c, "", FALSE) : c \in {"Esc", "Enter", "Backspace", "Right"}}
    \cup {Key("Char", "a", FALSE)}

\* the texts a typing session starts from
TypingSeeds == SeqsUpTo(SeedChars, MaxLen - 1)

\* event::poll returns true and event::read a key while the loop is at rest
EventThread_run_input_at_rest ==
    /\ ThreadRuns
    /\ pc = "recv"
    /\ status = "ok"
    /\ queue = <<>>
    /\ \E k \in TypingKeys :
        /\ queue' = EventThread_send(queue, Entry(nsent + 1, 0, k))
        /\ keys' = Append(keys, k)
    /\ origin' = IF ninput = 0 THEN Snapshot ELSE origin
    /\ nsent' = nsent + 1
    /\ ninput' = ninput + 1
    /\ UNCHANGED <<rope, position, mode, running, thread, pc, event, out, status,
                   nrecv, pre>>
    /\ UNCHANGED fileVars
    /\ UNCHANGED typed
    /\ UNCHANGED clockVars

InitTyping ==
    /\ rope \in TypingSeeds
    /\ position \in ValidPositions(rope)
    /\ mode \in {"Normal", "Insert", "Visual"}
    /\ running = TRUE
    /\ queue = <<>>
    /\ thread = "alive"
    /\ pc = "recv"
    /\ event = NoEntry
    /\ out = <<>>
    /\ status = "ok"
    /\ nsent = 0
    /\ nrecv = 0
    /\ ninput = 0
    /\ pre = NoSnapshot
    /\ path = File_new(None)
    /\ focus = "Editor"
    /\ input = FilenamePrompt_new
    /\ io = "none"
    /\ typed = <<>>
    /\ keys = <<>>
    /\ origin = NoSnapshot
    /\ elapsed = 0
    /\ since_tick = 0
    /\ forwarded = 0

NextTyping ==
    \/ App_handle_events
    \/ App_send_follow_up
    \/ EventThread_run_input_at_rest

SpecTyping == InitTyping /\ [][NextTyping]_vars

\* Cascades run to their end: a typing session, or one that starts with a
\* FileEvent::Save on the queue, in which the dispatch loop, a thread of its
\* own, takes its next step whenever it has one
SpecCascade ==
    /\ InitTyping \/ InitSave
    /\ [][NextTyping]_vars
    /\ WF_vars(App_handle_events)
    /\ WF_vars(App_send_follow_up)

-----------------------------------------------------------------------------
(* The handlers called directly, as the repository's unit tests call them: *)
(* Buffer::handle_event and Cursor::handle_event on any text, with any     *)
(* event.  `event`, `pre` and `out` record the call: the event, the text   *)
(* and cursor before it, and the events it returned.                       *)

Args == 0..MaxArg

BufferEvents ==
    {InsertChar("x", Position_new(l, c)) : l \in Args, c \in Args}
    \cup {DeleteChar(Position_new(l, c)) : l \in Args, c \in Args}
    \cup {InsertNewline(Position_new(l, c)) : l \in Args, c \in Args}

CursorEvents ==
    {MoveLeft, MoveRight, MoveUp, MoveDown, MoveToLineStart, MoveToLineEnd}
    \cup {SetPosition(l, c) : l \in Args, c \in Args}
    \cup {SetLinePosition(l) : l \in Args}
    \cup {SetColPosition(c) : c \in Args}

\* the buffer applies the cursor moves itself instead of only returning them
Call_Buffer_handle_event_moves_cursor ==
    /\ pc = "call"
    /\ status = "ok"
    /\ \E ev \in BufferEvents :
        /\ ev.op \in {"InsertChar", "InsertNewline"} => Len(rope) < MaxLen
        /\ event' = Entry(0, 0, ev)
        /\ pre' = Snapshot
        /\ IF Buffer_handle_event_panics(rope, ev)
           THEN /\ status' = "panic"
                /\ UNCHANGED <<rope, position, out>>
           ELSE /\ rope' = Buffer_handle_event(rope, ev).rope
                /\ out' = Buffer_handle_event(rope, ev).events
                /\ position' = [position EXCEPT !.col = position.col + 1]
                /\ UNCHANGED status
    /\ UNCHANGED <<mode, running, queue, thread, pc, nsent, nrecv, ninput>>
    /\ UNCHANGED fileVars
    /\ UNCHANGED typed
    /\ UNCHANGED sessionVars
    /\ UNCHANGED clockVars

Call_Buffer_handle_event ==
    /\ pc = "call"
    /\ status = "ok"
    /\ \E ev \in BufferEvents :
        /\ ev.op \in {"InsertChar", "InsertNewline"} => Len(rope) < MaxLen
        /\ event' = Entry(0, 0, ev)
        /\ pre' = Snapshot
        /\ IF Buffer_handle_event_panics(rope, ev)
           THEN /\ status' = "panic"
                /\ UNCHANGED <<rope, out>>
           ELSE /\ rope' = Buffer_handle_event(rope, ev).rope
                /\ out' = Buffer_handle_event(rope, ev).events
                /\ UNCHANGED status
    /\ UNCHANGED <<position, mode, running, queue, thread, pc, nsent, nrecv, ninput>>
    /\ UNCHANGED fileVars
    /\ UNCHANGED typed
    /\ UNCHANGED sessionVars
    /\ UNCHANGED clockVars

Call_Cursor_handle_event ==
    /\ pc = "call"
    /\ status = "ok"
    /\ \E ev \in CursorEvents :
        /\ event' = Entry(0, 0, ev)
        /\ pre' = Snapshot
        /\ IF Cursor_handle_event_panics(position, ev, rope)
           THEN /\ status' = "panic"
                /\ UNCHANGED <<position, out>>
           ELSE /\ position' = Cursor_handle_event(position, ev, rope)
                /\ out' = <<>>
                /\ UNCHANGED status
    /\ UNCHANGED <<rope, mode, running, queue, thread, pc, nsent, nrecv, ninput>>
    /\ UNCHANGED fileVars
    /\ UNCHANGED typed
    /\ UNCHANGED sessionVars
    /\ UNCHANGED clockVars

InitHandlers ==
    /\ rope \in SeqsUpTo(SeedChars, MaxLen)
    /\ position = Position_new(0, 0)
    /\ mode = "Normal"
    /\ running = TRUE
    /\ queue = <<>>
    /\ thread = "alive"
    /\ pc = "call"
    /\ event = NoEntry
    /\ out = <<>>
    /\ status = "ok"
    /\ nsent = 0
    /\ nrecv = 0
    /\ ninput = 0
    /\ pre = NoSnapshot
    /\ path = File_new(None)
    /\ focus = "Editor"
    /\ input = FilenamePrompt_new
    /\ io = "none"
    /\ typed = <<>>
    /\ keys = <<>>
    /\ origin = NoSnapshot
    /\ elapsed = 0
    /\ since_tick = 0
    /\ forwarded = 0

NextHandlers ==
    \/ Call_Buffer_handle_event
    \/ Call_Cursor_handle_event

SpecHandlers == InitHandlers /\ [][NextHandlers]_vars

-----------------------------------------------------------------------------
(* The cursor called directly on a text that does not change:              *)
(* Cursor::handle_event with any event, from any position.  A Cursor is    *)
(* only ever clamped against the text by its own methods, so after the     *)
(* buffer has been edited (BufferEvents carry their own position) it can   *)
(* stand at any line and column: past the end of its line, or on a line    *)
(* the text no longer has.                                                 *)

InitCursor ==
    /\ rope \in SeqsUpTo(SeedChars, MaxLen)
    /\ position \in {Position_new(l, c) : l \in Args, c \in Args}
    /\ mode = "Normal"
    /\ running = TRUE
    /\ queue = <<>>
    /\ thread = "alive"
    /\ pc = "call"
    /\ event = NoEntry
    /\ out = <<>>
    /\ status = "ok"
    /\ nsent = 0
    /\ nrecv = 0
    /\ ninput = 0
    /\ pre = NoSnapshot
    /\ path = File_new(None)
    /\ focus = "Editor"
    /\ input = FilenamePrompt_new
    /\ io = "none"
    /\ typed = <<>>
    /\ keys = <<>>
    /\ origin = NoSnapshot
    /\ elapsed = 0
    /\ since_tick = 0
    /\ forwarded = 0

NextCursor == Call_Cursor_handle_event

SpecCursor == InitCursor /\ [][NextCursor]_vars

-----------------------------------------------------------------------------
(* The mode objects called directly: Mode::handle_key of any mode, with    *)
(* any key and any cursor position, and change_mode with any EditorMode.   *)
(* `event` is the key, `pre` the mode and the position handed to the       *)
(* handler, `out` the events it returned.                                  *)

ModeKeys ==
    {Key(c, "", FALSE) : c \in {"Esc", "Enter", "Backspace", "Left", "Right", "Up",
                                "Down", "Tab"}}
    \cup {Key("Char", ch, FALSE) : ch \in {"i", "a", "v", "q", "h", "l", "j", "k", "x"}}
    \cup {Key("Char", "c", TRUE)}

Call_Mode_handle_key ==
    /\ pc = "call"
    /\ status = "ok"
    /\ \E key \in ModeKeys :
        /\ event' = Entry(0, 0, key)
        /\ pre' = Snapshot
        /\ out' = Mode_handle_key(mode, key, position)
    /\ UNCHANGED <<rope, position, mode, running, queue, thread, pc, status, nsent,
                   nrecv, ninput>>
    /\ UNCHANGED fileVars
    /\ UNCHANGED typed
    /\ UNCHANGED sessionVars
    /\ UNCHANGED clockVars

Call_change_mode ==
    /\ pc = "call"
    /\ \E new_mode \in {"Insert", "Normal", "Visual"} :
        /\ event' = Entry(0, 0, ChangeToMode(new_mode, FALSE))
        /\ pre' = Snapshot
        /\ mode' = change_mode(new_mode)
    /\ out' = <<>>
    /\ UNCHANGED <<rope, position, running, queue, thread, pc, status, nsent, nrecv,
                   ninput>>
    /\ UNCHANGED fileVars
    /\ UNCHANGED typed
    /\ UNCHANGED sessionVars
    /\ UNCHANGED clockVars

InitModes ==
    /\ rope = <<>>
    /\ position \in {Position_new(l, c) : l \in Args, c \in Args}
    /\ mode = "Normal"
    /\ running = TRUE
    /\ queue = <<>>
    /\ thread = "alive"
    /\ pc = "call"
    /\ event = NoEntry
    /\ out = <<>>
    /\ status = "ok"
    /\ nsent = 0
    /\ nrecv = 0
    /\ ninput = 0
    /\ pre = NoSnapshot
    /\ path = File_new(None)
    /\ focus = "Editor"
    /\ input = FilenamePrompt_new
    /\ io = "none"
    /\ typed = <<>>
    /\ keys = <<>>
    /\ origin = NoSnapshot
    /\ elapsed = 0
    /\ since_tick = 0
    /\ forwarded = 0

NextModes ==
    \/ Call_Mode_handle_key
    \/ Call_change_mode

SpecModes == InitModes /\ [][NextModes]_vars

-----------------------------------------------------------------------------
(* One call of a handler on any editor state: Buffer::handle_event,         *)
(* Cursor::handle_event or Mode::handle_key of the active mode, with any   *)
(* of its inputs.  A handler reads nothing but the state it is handed, so  *)
(* the first call from every state shows what any call does.  The cursor   *)
(* may stand anywhere with respect to the text, as in SpecCursor.          *)

InitCalls ==
    /\ rope \in SeqsUpTo(SeedChars, MaxLen)
    /\ position \in {Position_new(l, c) : l \in Args, c \in Args}
    /\ mode \in {"Normal", "Insert", "Visual"}
    /\ running = TRUE
    /\ queue = <<>>
    /\ thread = "alive"
    /\ pc = "call"
    /\ event = NoEntry
    /\ out = <<>>
    /\ status = "ok"
    /\ nsent = 0
    /\ nrecv = 0
    /\ ninput = 0
    /\ pre = NoSnapshot
    /\ path = File_new(None)
    /\ focus = "Editor"
    /\ input = FilenamePrompt_new
    /\ io = "none"
    /\ typed = <<>>
    /\ keys = <<>>
    /\ origin = NoSnapshot
    /\ elapsed = 0
    /\ since_tick = 0
    /\ forwarded = 0

\* no handler has been called yet
FirstCall == event = NoEntry

NextCalls ==
    \/ FirstCall /\ Call_Buffer_handle_event
    \/ FirstCall /\ Call_Cursor_handle_event
    \/ FirstCall /\ Call_Mode_handle_key

SpecCalls == InitCalls /\ [][NextCalls]_vars

-----------------------------------------------------------------------------
(* The file and the filename prompt called directly, as the repository's   *)
(* unit tests call them: File::handle_event with Save or SaveAs, the write *)
(* succeeding or failing, and FilenamePrompt::handle_key with any key.     *)

NameChars == {"f", "g"}

\* the strings of at most n characters
RECURSIVE StringsUpTo(_)
StringsUpTo(n) ==
    IF n = 0 THEN {""}
    ELSE LET shorter == StringsUpTo(n - 1)
         IN  shorter \cup {str \o c : str \in shorter, c \in NameChars}

FileEvents == {Save} \cup {SaveAs(p) : p \in StringsUpTo(MaxName)}

PromptKeys ==
    {Key(c, "", FALSE) : c \in {"Esc", "Enter", "Backspace", "Tab", "Left"}}
    \cup {Key("Char", ch, FALSE) : ch \in NameChars}
    \cup {Key("Char", "g", TRUE)}

Call_File_handle_event ==
    /\ pc = "call"
    /\ status = "ok"
    /\ \E ev \in FileEvents, write_ok \in BOOLEAN :
        LET res == File_handle_event(path, ev, rope, write_ok)
        IN  /\ event' = Entry(0, 0, ev)
            /\ pre' = Snapshot
            /\ path' = res.path
            /\ out' = res.events
            /\ io' = res.io
    /\ UNCHANGED <<rope, position, mode, running, queue, thread, pc, status, nsent,
                   nrecv, ninput, focus, input, typed>>
    /\ UNCHANGED sessionVars
    /\ UNCHANGED clockVars

Call_FilenamePrompt_handle_key ==
    /\ pc = "call"
    /\ status = "ok"
    /\ \E key \in PromptKeys :
        LET res == FilenamePrompt_handle_key(input, key)
        IN  /\ key.op = "Char" => Len(input) < MaxName
            /\ event' = Entry(0, 0, key)
            /\ pre' = Snapshot
            /\ input' = res.input
            /\ out' = res.events
            /\ io' = "none"
    /\ UNCHANGED <<rope, position, mode, running, queue, thread, pc, status, nsent,
                   nrecv, ninput, path, focus, typed>>
    /\ UNCHANGED sessionVars
    /\ UNCHANGED clockVars

InitFile ==
    /\ rope \in Seeds
    /\ position = Position_new(0, 0)
    /\ mode = "Normal"
    /\ running = TRUE
    /\ queue = <<>>
    /\ thread = "alive"
    /\ pc = "call"
    /\ event = NoEntry
    /\ out = <<>>
    /\ status = "ok"
    /\ nsent = 0
    /\ nrecv = 0
    /\ ninput = 0
    /\ pre = NoSnapshot
    /\ path \in {File_new(None), File_new(Some("f"))}
    /\ focus = "Editor"
    /\ input = FilenamePrompt_new
    /\ io = "none"
    /\ typed = <<>>
    /\ keys = <<>>
    /\ origin = NoSnapshot
    /\ elapsed = 0
    /\ since_tick = 0
    /\ forwarded = 0

NextFile ==
    \/ Call_File_handle_event
    \/ Call_FilenamePrompt_handle_key

SpecFile == InitFile /\ [][NextFile]_vars

-----------------------------------------------------------------------------
(* Vocabulary of the properties *)

\* the lines of a text, without their line breaks
RECURSIVE Split(_)
Split(r) ==
    IF r = <<>> THEN << <<>> >>
    ELSE LET rest == Split(Tail(r))
         IN  IF Head(r) = NL THEN << <<>> >> \o rest
             ELSE << <<Head(r)>> \o rest[1] >> \o Tail(rest)

\* line l (zero-based) of a text, without its line break
LineOf(r, l) == Split(r)[l + 1]

\* the text whose lines are ls
RECURSIVE Join(_)
Join(ls) ==
    IF Len(ls) = 1 THEN ls[1] ELSE ls[1] \o <<NL>> \o Join(Tail(ls))

\* ls with line l (zero-based) replaced by the lines in by
ReplaceLine(ls, l, by) == SubSeq(ls, 1, l) \o by \o SubSeq(ls, l + 2, Len(ls))

HasLine(r, l) == l < Len(Split(r))

\* pos is a valid cursor position of the text r
ValidPosition(r, pos) == HasLine(r, pos.line) /\ pos.col <= Len(LineOf(r, pos.line))

\* the number of characters of line l of the text r, its line break not counted
VisibleLen(r, l) == Len(LineOf(r, l))

\* the cursor after the cursor events evs are applied in order, nothing in between
RECURSIVE ApplyCursorEvents(_, _, _)
ApplyCursorEvents(pos, evs, r) ==
    IF evs = <<>> THEN pos
    ELSE ApplyCursorEvents(Cursor_handle_event(pos, Head(evs), r), Tail(evs), r)

\* the last handler that ran was handed an event of this kind and operation
Called(kind, op) == event.ev.kind = kind /\ event.ev.op = op

\* ... and it returned (it did not panic)
Handled(kind, op) == status = "ok" /\ Called(kind, op)

\* the queue entries emitted by the handler of the event with sequence number n
FollowUpsOf(n) == SelectSeq(queue, LAMBDA e : e.cause = n)

EventsOf(entries) == [i \in 1..Len(entries) |-> entries[i].ev]

-----------------------------------------------------------------------------
(* C1.  After Cursor::handle_event has applied a CursorEvent, the cursor   *)
(* is valid for the text as it is then: position.line < len_lines() and    *)
(* position.col <= max_visible_col(position), also when BufferEvents have  *)
(* changed the text since the cursor was last updated.                     *)
C1_CursorValidAfterEvent ==
    (status = "ok" /\ event.ev.kind = "Cursor") => ValidPosition(rope, position)

(* C2.  Events are applied in the order they were placed on the queue: the *)
(* k-th event received is the k-th event placed, the queue holds the       *)
(* events placed and not yet received in the order placed, the follow-ups  *)
(* of the event being handled are placed in the order its handler returned *)
(* them, and all of them are placed before the next event is received.     *)
C2_FifoOrder ==
    pc # "call" =>
        /\ \A i \in 1..Len(queue) : queue[i].id = nrecv + i
        /\ nrecv > 0 => event.id = nrecv
        /\ pc = "recv" => out = <<>>
        /\ (nrecv > 0 /\ status = "ok") =>
              EventsOf(FollowUpsOf(event.id)) \o out
                  = App_dispatch(event.ev, pre.rope, pre.position, pre.mode).events

\* both follow-ups of an event are on the queue, behind an input event that was
\* placed before them, and the loop is about to receive
C2_Witness ==
    /\ pc = "recv"
    /\ nrecv > 0
    /\ Len(queue) = 3
    /\ queue[1].cause = 0
    /\ queue[2].cause = event.id
    /\ queue[3].cause = event.id
    /\ queue[2].ev = MoveDown
    /\ queue[3].ev = MoveToLineStart

(* C3, as claimed.  No event is dropped: when the loop has returned, every *)
(* event that was placed on the queue has been received and applied.       *)
C3_NoEventDropped ==
    (pc = "done" /\ status = "ok") => nrecv = nsent

(* C3, amended.  The queue neither loses nor duplicates an event: the      *)
(* events placed are those received, each once, and those still queued,    *)
(* each once; a queued event is received as soon as the loop is back in    *)
(* recv.  (Events still queued when the loop ends are never applied.)      *)
C3_QueueConservation ==
    pc # "call" =>
        /\ nsent = nrecv + Len(queue)
        /\ \A i \in 1..Len(queue) : queue[i].id > nrecv /\ queue[i].id <= nsent
        /\ \A i, j \in 1..Len(queue) : queue[i].id = queue[j].id => i = j
        /\ nrecv > 0 => event.id = nrecv
        /\ (pc = "recv" /\ status = "ok" /\ queue # <<>>) =>
              EventHandler_next(queue, thread) = [tag |-> "Ok", entry |-> queue[1]]

\* input events and a follow-up are queued while an earlier event is handled
C3_Witness ==
    /\ pc = "send"
    /\ nrecv = 1
    /\ Len(queue) = 2
    /\ queue[1].cause = 0
    /\ queue[2].cause = 1
    /\ out # <<>>

(* C10.  When the input thread has terminated, the loop's receive does not *)
(* block: it returns a queued event or fails, and the loop ends with the   *)
(* error once the queue is empty.                                          *)
C10_DeadThreadEndsLoop ==
    (thread = "dead" /\ pc = "recv" /\ status = "ok") => ENABLED App_handle_events

(* C11.  Once a Quit event has been dispatched the loop has stopped:        *)
(* running is false and the loop has returned; from then on running stays  *)
(* false and nothing is received or applied: the text, the cursor and the  *)
(* mode stay as they are.                                                  *)
C11_QuitStopsLoop ==
    /\ []((status = "ok" /\ nrecv > 0 /\ event.ev = Quit) => (~running /\ pc = "done"))
    /\ [][~running => /\ ~running'
                      /\ nrecv' = nrecv
                      /\ rope' = rope
                      /\ position' = position
                      /\ mode' = mode]_vars

\* the loop has returned on Quit and left an event on the queue unapplied
C11_Witness ==
    /\ ~running
    /\ pc = "done"
    /\ status = "ok"
    /\ event.ev = Quit
    /\ queue # <<>>

(* C12.  The renderer is never handed a state in which a buffer event has  *)
(* changed the text while a cursor follow-up of that event is still on the *)
(* queue.                                                                  *)
C12_RenderAfterFollowUps ==
    (/\ Rendered
     /\ nrecv > 0
     /\ event.ev.kind = "Buffer"
     /\ rope # pre.rope) =>
        \A i \in 1..Len(queue) :
            ~(queue[i].cause = event.id /\ queue[i].ev.kind = "Cursor")

\* the follow-ups of the event handled last: those on the queue and those the
\* loop has yet to send
LastFollowUps == EventsOf(FollowUpsOf(event.id)) \o out

\* the event handled last was the key `key`, handed to the Mode object m
KeyHandledIn(m, key) ==
    status = "ok" /\ nrecv > 0 /\ event.ev = key /\ pre.mode = m

(* C18.  In Normal mode the key `a` emits exactly [MoveRight,              *)
(* ChangeToMode(Insert{append: true})], in that order; MoveRight stays     *)
(* ahead of the mode change on the queue, and when the mode change is      *)
(* applied the MoveRight has already been received.                        *)
C18_AppendMovesThenInserts ==
    /\ KeyHandledIn("Normal", Key("Char", "a", FALSE)) =>
          LastFollowUps = <<MoveRight, ChangeToMode("Insert", TRUE)>>
    /\ \A i, j \in 1..Len(queue) :
          (/\ queue[i].ev = ChangeToMode("Insert", TRUE)
           /\ queue[j].ev = MoveRight
           /\ queue[j].cause = queue[i].cause) => j < i
    /\ (nrecv > 0 /\ event.ev = ChangeToMode("Insert", TRUE)) =>
          \A j \in 1..Len(queue) :
              ~(queue[j].ev = MoveRight /\ queue[j].cause = event.cause)

\* `a` was typed in Normal mode on the text "a": the cursor has moved right and
\* the mode change, received after it, has made the mode Insert
C18_Witness ==
    /\ status = "ok"
    /\ nrecv = 3
    /\ event.ev = ChangeToMode("Insert", TRUE)
    /\ event.cause = 1
    /\ pre.mode = "Normal"
    /\ mode = "Insert"
    /\ rope = <<"a">>
    /\ position = Position_new(0, 1)

(* C19.  In Normal mode `i` emits exactly [ChangeToMode(Insert{append:     *)
(* false})], `v` exactly [ChangeToMode(Visual)], and each of `q`, Esc and  *)
(* Ctrl-C exactly [Quit]; once Quit has been applied the mode does not     *)
(* change any more.                                                        *)
C19_NormalModeKeys ==
    /\ [](/\ KeyHandledIn("Normal", Key("Char", "i", FALSE)) =>
               LastFollowUps = <<ChangeToMode("Insert", FALSE)>>
          /\ KeyHandledIn("Normal", Key("Char", "v", FALSE)) =>
               LastFollowUps = <<ChangeToMode("Visual", FALSE)>>
          /\ KeyHandledIn("Normal", Key("Char", "q", FALSE)) => LastFollowUps = <<Quit>>
          /\ KeyHandledIn("Normal", Key("Esc", "", FALSE)) => LastFollowUps = <<Quit>>
          /\ KeyHandledIn("Normal", Key("Char", "c", TRUE)) => LastFollowUps = <<Quit>>)
    /\ [][(status = "ok" /\ nrecv > 0 /\ event.ev = Quit) => mode' = mode]_vars

\* Ctrl-C was typed in Normal mode and its Quit is the last event on the queue
C19_Witness ==
    /\ KeyHandledIn("Normal", Key("Char", "c", TRUE))
    /\ pc = "recv"
    /\ queue # <<>>
    /\ queue[Len(queue)].ev = Quit
    /\ queue[Len(queue)].cause = event.id
    /\ LastFollowUps = <<Quit>>

(* C22.  One mode is active in every reachable state: Normal, Insert or    *)
(* Visual.  The active mode changes only in the step that dispatches a     *)
(* ChangeToMode(m) event, and after that step it is m; the step that       *)
(* handles a raw key leaves the mode as it was.                            *)
C22_ModeChangesOnlyByChangeToMode ==
    /\ [](mode \in {"Normal", "Insert", "Visual"})
    /\ [](event.ev.kind = "ChangeToMode" => mode = event.ev.op)
    /\ [](event.ev.kind = "Key" => mode = pre.mode)
    /\ [][mode' # mode =>
            /\ nrecv' = nrecv + 1
            /\ event'.ev.kind = "ChangeToMode"
            /\ mode' = event'.ev.op]_vars

\* the ChangeToMode(Visual) that the key v emitted in Normal mode has been
\* dispatched: the mode has gone from Normal to Visual
C22_Witness ==
    /\ status = "ok"
    /\ event.ev = ChangeToMode("Visual", FALSE)
    /\ event.cause > 0
    /\ pre.mode = "Normal"
    /\ mode = "Visual"


(* C26, as claimed.  While the filename prompt has the focus the text, the *)
(* cursor and the mode stay as they are: no step taken with the focus on   *)
(* the prompt changes any of them.                                         *)
C26_EditorUnchangedUnderPrompt ==
    [][focus = "FilenamePrompt" =>
            rope' = rope /\ position' = position /\ mode' = mode]_vars

(* C26, amended.  A raw key event that is dispatched while the filename    *)
(* prompt has the focus goes to the prompt and to no Normal, Insert or     *)
(* Visual key handler: it produces no BufferEvent, no CursorEvent, no      *)
(* ChangeToMode and no Quit, only SaveAs and ChangeFocus(Editor), and its  *)
(* dispatch leaves the text, the cursor and the mode unchanged.            *)
C26_PromptKeysStayInPrompt ==
    (event.ev.kind = "Key" /\ pre.focus = "FilenamePrompt") =>
        /\ \A i \in 1..Len(LastFollowUps) :
                \/ LastFollowUps[i].kind = "File" /\ LastFollowUps[i].op = "SaveAs"
                \/ LastFollowUps[i] = ChangeFocus("Editor")
        /\ rope = pre.rope
        /\ position = pre.position
        /\ mode = pre.mode
        /\ running

\* i, the key that inserts itself in Insert mode and enters Insert mode from
\* Normal mode, was dispatched with the focus on the prompt: it went into the
\* prompt's input
C26_Witness ==
    /\ status = "ok"
    /\ event.ev = Key("Char", "i", FALSE)
    /\ pre.focus = "FilenamePrompt"
    /\ pre.input = ""
    /\ input = "i"
    /\ rope = <<>>
    /\ LastFollowUps = <<>>

(* C27.  Dispatching a Tick, a FileEvent or a ChangeFocus event leaves the *)
(* text, the cursor position and the active mode unchanged.                *)
C27_TickFileFocusFrame ==
    (event.id > 0 /\ event.ev.kind \in {"Tick", "File", "ChangeFocus"}) =>
        /\ status = "ok"
        /\ rope = pre.rope
        /\ position = pre.position
        /\ mode = pre.mode

\* the SaveAs that Enter returned in the prompt was dispatched: the path is
\* set, and the text, the cursor and the mode are as they were
C27_Witness ==
    /\ Handled("File", "SaveAs")
    /\ event.cause > 0
    /\ pre.path = None
    /\ path = Some(event.ev.arg)
    /\ rope = pre.rope
    /\ position = pre.position
    /\ mode = pre.mode


\* every event sent so far has been received and applied, and the loop waits
Quiescent == status = "ok" /\ pc = "recv" /\ queue = <<>> /\ out = <<>>

\* the text r holds the characters cs side by side, in their order
Contains(r, cs) ==
    \E i \in 0..(Len(r) - Len(cs)) : SubSeq(r, i + 1, i + Len(cs)) = cs

(* C28.  In Insert mode, when nothing but character keys k1..kn has been   *)
(* put on the queue and every event has been applied, whatever the         *)
(* interleaving of the keys with the follow-ups they caused, the text      *)
(* holds k1..kn side by side in the order they were typed.                 *)
C28_TypedCharsInOrder ==
    (Quiescent /\ typed # <<>> /\ Len(typed) = ninput) => Contains(rope, typed)

(* C29.  In every reachable state of the pipeline, no BufferEvent has been *)
(* applied whose position.line is >= len_lines() and no CursorEvent has    *)
(* been applied while the cursor's line was >= len_lines(): no rope line   *)
(* lookup panics.                                                          *)
C29_NoLineOutOfRange ==
    /\ status # "panic"
    /\ event.ev.kind = "Buffer" => event.ev.line < len_lines(pre.rope)
    /\ event.ev.kind = "Cursor" => pre.position.line < len_lines(pre.rope)

\* the follow-ups [MoveLeft, ChangeToMode(Normal)] of the Esc key with sequence
\* number esc, handled in Insert mode, are on the queue
EscFollowUpsQueued(esc) ==
    \E i \in 1..(Len(queue) - 1) :
        /\ queue[i].cause = esc
        /\ queue[i].ev = MoveLeft
        /\ queue[i + 1].cause = esc
        /\ queue[i + 1].ev = ChangeToMode("Normal", FALSE)

(* C30.  A raw key event that entered the queue after an Esc key which the *)
(* Insert key handler has handled is not handled by the Insert key handler *)
(* while the follow-ups of that Esc are still waiting on the queue: it     *)
(* produces no BufferEvent.                                                *)
C30_NoInsertAfterEsc ==
    (event.ev.kind = "Key" /\ event.cause = 0
        /\ \E esc \in 1..(event.id - 1) : EscFollowUpsQueued(esc)) =>
        /\ pre.mode # "Insert"
        /\ \A i \in 1..Len(LastFollowUps) : LastFollowUps[i].kind # "Buffer"

(* C31.  Whenever a BufferEvent is applied the active mode is Insert: the  *)
(* text does not change while the mode is Normal or Visual, whatever the   *)
(* interleaving of key events and follow-ups.                              *)
C31_BufferEventsOnlyInInsert ==
    /\ (event.id > 0 /\ event.ev.kind = "Buffer") => pre.mode = "Insert"
    /\ (event.id > 0 /\ pre.mode \in {"Normal", "Visual"}) => rope = pre.rope

-----------------------------------------------------------------------------
(* Properties of a typing session, in which every key's cascade is applied *)
(* before the next key is read                                             *)

\* the character under the cursor, if there is one
CharAt(r, pos) ==
    IF HasLine(r, pos.line) /\ pos.col < VisibleLen(r, pos.line)
    THEN <<LineOf(r, pos.line)[pos.col + 1]>>
    ELSE <<>>

(* C32.  In Insert mode with a valid cursor, a character key or Enter and  *)
(* then Backspace, each key's whole cascade of follow-ups being applied    *)
(* before the next key is read, restore the text and the cursor position   *)
(* to what they were before the first key; no handler panics on the way.   *)
C32_TypeThenBackspace ==
    (/\ origin.mode = "Insert"
     /\ Len(keys) = 2
     /\ keys[1].op \in {"Char", "Enter"}
     /\ keys[2].op = "Backspace") =>
        /\ status = "ok"
        /\ Quiescent => (rope = origin.rope /\ position = origin.position)

\* Enter and then Backspace in the middle of the line "aa": the line was split
\* and joined again, and the cursor is back between the two characters
C32_Witness ==
    /\ Quiescent
    /\ keys = <<Key("Enter", "", FALSE), Key("Backspace", "", FALSE)>>
    /\ origin.mode = "Insert"
    /\ origin.rope = <<"a", "a">>
    /\ origin.position = Position_new(0, 1)
    /\ event.ev = SetColPosition(1)
    /\ rope = <<"a", "a">>
    /\ position = Position_new(0, 1)

(* C33.  When a character has been typed in Insert mode and Esc is pressed *)
(* next, each key's cascade being applied before the next key is read, the *)
(* mode is Normal and the cursor is on the character typed last: the       *)
(* character of the text at the cursor position is that character.         *)
C33_EscLandsOnLastTyped ==
    (/\ Quiescent
     /\ origin.mode = "Insert"
     /\ Len(keys) >= 2
     /\ keys[Len(keys)].op = "Esc"
     /\ keys[Len(keys) - 1].op = "Char"
     /\ \A i \in 1..(Len(keys) - 1) : keys[i].op # "Esc") =>
        /\ mode = "Normal"
        /\ CharAt(rope, position) = <<keys[Len(keys) - 1].arg>>

\* `a` typed at the end of the line "a" and then Esc: the cursor went past the
\* new character and came back onto it
C33_Witness ==
    /\ Quiescent
    /\ keys = <<Key("Char", "a", FALSE), Key("Esc", "", FALSE)>>
    /\ origin.mode = "Insert"
    /\ origin.rope = <<"a">>
    /\ origin.position = Position_new(0, 1)
    /\ event.ev = ChangeToMode("Normal", FALSE)
    /\ mode = "Normal"
    /\ rope = <<"a", "a">>
    /\ position = Position_new(0, 1)

(* C35.  Every cascade comes to an end: a CursorEvent returns no           *)
(* follow-ups, a BufferEvent returns only CursorEvents and a FileEvent at  *)
(* most one event, a ChangeFocus; so once an event is on the queue and no  *)
(* further key is read, the queue is empty again, with nothing left to     *)
(* send, after finitely many steps of the loop.                            *)
C35_CascadesTerminate ==
    /\ []((event.id > 0 /\ status = "ok" /\ event.ev.kind = "Cursor") =>
              LastFollowUps = <<>>)
    /\ []((event.id > 0 /\ status = "ok" /\ event.ev.kind = "Buffer") =>
              \A i \in 1..Len(LastFollowUps) : LastFollowUps[i].kind = "Cursor")
    /\ []((event.id > 0 /\ status = "ok" /\ event.ev.kind = "File") =>
              /\ Len(LastFollowUps) <= 1
              /\ \A i \in 1..Len(LastFollowUps) : LastFollowUps[i].kind = "ChangeFocus")
    /\ (queue # <<>>) ~> (queue = <<>> /\ out = <<>>)

\* the cascade of Enter, typed in Insert mode, has come to its end: the
\* InsertNewline, its MoveDown and its MoveToLineStart were applied, the last
\* of them returned nothing and the queue is empty
C35_Witness ==
    /\ Quiescent
    /\ keys = <<Key("Enter", "", FALSE)>>
    /\ origin.mode = "Insert"
    /\ nrecv = 4
    /\ event.ev = MoveToLineStart
    /\ LastFollowUps = <<>>
    /\ len_lines(rope) = len_lines(origin.rope) + 1

\* the file names a session at the filename prompt can enter
PromptNames == {"q", "qq", "qqq"}

(* C37.  A Save dispatched while no path is set eventually moves the focus *)
(* to the filename prompt; from there, Enter on a non-empty input          *)
(* eventually leaves the file path set to that input and the focus back on *)
(* the editor, and the SaveAs is applied before the focus change.          *)
C37_SaveThroughPrompt ==
    /\ (Handled("File", "Save") /\ ~pre.path.some) ~> (focus = "FilenamePrompt")
    /\ \A name \in PromptNames :
          (/\ event.ev = Key("Enter", "", FALSE)
           /\ pre.focus = "FilenamePrompt"
           /\ pre.input = name) ~> (path = Some(name) /\ focus = "Editor")
    /\ []((event.ev = ChangeFocus("Editor") /\ pre.focus = "FilenamePrompt") =>
              \A i \in 1..Len(queue) :
                  ~(queue[i].ev.kind = "File" /\ queue[i].cause = event.cause))

\* the step is a turn of the input thread's loop
ThreadTurn == ninput' # ninput \/ elapsed' # elapsed

\* the step puts a Tick on the queue
TickSent == \E i \in 1..Len(queue') : queue'[i].id > nsent /\ queue'[i].ev = Tick

(* C38, as claimed.  The background thread emits a Tick only when a whole  *)
(* tick interval has elapsed in which it has forwarded no input event: an  *)
(* interval in which input arrived produces no Tick.                       *)
C38_TickOnlyWithoutInput ==
    [][TickSent => (since_tick >= TickInterval /\ forwarded = 0)]_vars

(* C38, amended.  The background thread emits a Tick in the turn of its    *)
(* loop at whose top a whole tick interval has elapsed since the Tick      *)
(* before (since the thread started, for the first), and in no other turn, *)
(* whether or not it has forwarded input events in that interval: input    *)
(* neither suppresses nor postpones the Tick, which is never later than    *)
(* the interval plus the time of one turn.                                 *)
C38_TickEveryInterval ==
    /\ [][ThreadTurn => (TickSent <=> since_tick >= TickInterval)]_vars
    /\ [](since_tick = elapsed)
    /\ [](since_tick <= TickInterval + MaxLate)

\* a key was forwarded in the first interval and the first Tick was sent all
\* the same, a whole interval after the start
C38_Witness ==
    /\ Len(queue) = 2
    /\ queue[1].id = 1
    /\ queue[1].ev.kind = "Key"
    /\ queue[2].id = 2
    /\ queue[2].ev = Tick
    /\ forwarded = 0
    /\ since_tick <= MaxLate

-----------------------------------------------------------------------------
(* Properties of the handlers, over the last call: `event` is the event    *)
(* handed to the handler, `pre` the text and cursor before the call,       *)
(* `rope` the text after it and `out` the events it returned.              *)

\* the text r without the character at column c (zero-based) of line l
WithoutChar(r, l, c) ==
    LET ln == LineOf(r, l)
    IN  Join(ReplaceLine(Split(r), l, << SubSeq(ln, 1, c) \o SubSeq(ln, c + 2, Len(ln)) >>))

\* the text r with ch put before column c of line l
WithChar(r, l, c, ch) ==
    LET ln == LineOf(r, l)
    IN  Join(ReplaceLine(Split(r), l,
                         << SubSeq(ln, 1, c) \o <<ch>> \o SubSeq(ln, c + 1, Len(ln)) >>))

(* C4, as claimed.  InsertChar{char, position} followed by                 *)
(* DeleteChar{position} with that same position leaves the text as it was  *)
(* before the insertion.                                                   *)
C4_RoundTripSamePosition ==
    (Handled("Buffer", "InsertChar") /\ HasLine(pre.rope, event.ev.line)) =>
        delete_char(rope, EvPos(event.ev)).rope = pre.rope

(* C4, amended.  For a position valid for the text, InsertChar{char,       *)
(* position} returns, and DeleteChar one column to the right of it, at     *)
(* {line, col + 1}, then leaves the text as it was before the insertion.   *)
C4_RoundTripNextColumn ==
    (Called("Buffer", "InsertChar") /\ ValidPosition(pre.rope, EvPos(event.ev))) =>
        LET after == Position_new(event.ev.line, event.ev.col + 1)
        IN  /\ status = "ok"
            /\ ~Buffer_handle_event_panics(rope, DeleteChar(after))
            /\ delete_char(rope, after).rope = pre.rope

\* a character was inserted at the start of the second line, before a character
C4_Witness ==
    /\ Handled("Buffer", "InsertChar")
    /\ pre.rope = <<NL, "a">>
    /\ EvPos(event.ev) = Position_new(1, 0)
    /\ rope = <<NL, "x", "a">>
    /\ delete_char(rope, Position_new(1, 1)).rope = pre.rope

(* C5.  DeleteChar at (line, 0), line > 0 being a line of the text,        *)
(* removes the line break that joins line-1 to line: line-1 becomes the    *)
(* two lines concatenated and len_lines drops by one.  It returns          *)
(* [SetLinePosition(line-1), SetColPosition(c)], c being the length of     *)
(* line-1 before the merge, counted with its line break, minus one; with   *)
(* nothing applied in between these leave the cursor at (line-1, c).       *)
C5_MergeWithLineAbove ==
    (/\ Called("Buffer", "DeleteChar")
     /\ event.ev.col = 0
     /\ event.ev.line > 0
     /\ HasLine(pre.rope, event.ev.line)) =>
        LET l == event.ev.line
            before == Split(pre.rope)
            c == Len(rope_line(pre.rope, l - 1)) - 1
        IN  /\ status = "ok"
            /\ c = Len(before[l])
            /\ Split(rope) = SubSeq(before, 1, l - 1) \o << before[l] \o before[l + 1] >>
                                 \o SubSeq(before, l + 2, Len(before))
            /\ len_lines(rope) = len_lines(pre.rope) - 1
            /\ out = <<SetLinePosition(l - 1), SetColPosition(c)>>
            /\ ApplyCursorEvents(position, out, rope) = Position_new(l - 1, c)

\* the second line was merged into a non-empty first line
C5_Witness ==
    /\ Handled("Buffer", "DeleteChar")
    /\ event.ev.col = 0
    /\ event.ev.line = 1
    /\ pre.rope = <<"a", NL, "a">>
    /\ rope = <<"a", "a">>
    /\ out = <<SetLinePosition(0), SetColPosition(1)>>

(* C6.  InsertChar at a column beyond the end of line position.line puts   *)
(* the character at the end of that line, as its last visible character,   *)
(* for every line of the text, and raises no error.                        *)
C6_ClampToLineEnd ==
    (/\ status = "ok"
     /\ event.ev.kind = "Buffer"
     /\ event.ev.op = "InsertChar"
     /\ HasLine(pre.rope, event.ev.line)
     /\ event.ev.col > Len(LineOf(pre.rope, event.ev.line))) =>
        rope = WithChar(pre.rope, event.ev.line,
                        Len(LineOf(pre.rope, event.ev.line)), event.ev.arg)

(* C7.  InsertChar{char, position} with position.col within the line puts  *)
(* one character immediately before the character at position, leaves      *)
(* every other character where it was, and returns [MoveRight].            *)
C7_InsertChar ==
    (Called("Buffer", "InsertChar") /\ ValidPosition(pre.rope, EvPos(event.ev))) =>
        /\ status = "ok"
        /\ rope = WithChar(pre.rope, event.ev.line, event.ev.col, event.ev.arg)
        /\ Len(rope) = Len(pre.rope) + 1
        /\ out = <<MoveRight>>

\* a character was inserted at the end of the first line, before its line break
C7_Witness ==
    /\ Handled("Buffer", "InsertChar")
    /\ pre.rope = <<"a", NL>>
    /\ EvPos(event.ev) = Position_new(0, 1)
    /\ rope = <<"a", "x", NL>>
    /\ out = <<MoveRight>>

(* C8, as claimed.  DeleteChar{position} with position.col > 0 removes     *)
(* exactly one character and returns [MoveLeft]; DeleteChar at (0, 0)      *)
(* leaves the text unchanged and returns nothing.                          *)
C8_DeleteAnyColumn ==
    (Handled("Buffer", "DeleteChar") /\ HasLine(pre.rope, event.ev.line)) =>
        /\ event.ev.col > 0 => (Len(rope) = Len(pre.rope) - 1 /\ out = <<MoveLeft>>)
        /\ (event.ev.col = 0 /\ event.ev.line = 0) => (rope = pre.rope /\ out = <<>>)

(* C8, amended.  DeleteChar{position} with 0 < position.col <= the length  *)
(* of the line removes the character at column col-1 of that line and      *)
(* returns [MoveLeft]; on an empty text a DeleteChar at line 0 with any     *)
(* column, and on any text a DeleteChar at (0, 0), leave the text          *)
(* unchanged and return nothing.                                           *)
C8_DeleteChar ==
    Called("Buffer", "DeleteChar") =>
        /\ (event.ev.col > 0 /\ ValidPosition(pre.rope, EvPos(event.ev))) =>
              /\ status = "ok"
              /\ rope = WithoutChar(pre.rope, event.ev.line, event.ev.col - 1)
              /\ out = <<MoveLeft>>
        /\ (event.ev.line = 0 /\ (event.ev.col = 0 \/ pre.rope = <<>>)) =>
              /\ status = "ok"
              /\ rope = pre.rope
              /\ out = <<>>

\* the character before the cursor was deleted on the second line
C8_Witness ==
    /\ Handled("Buffer", "DeleteChar")
    /\ pre.rope = <<"a", NL, "x">>
    /\ EvPos(event.ev) = Position_new(1, 1)
    /\ rope = <<"a", NL>>
    /\ out = <<MoveLeft>>

(* C9.  InsertNewline at a valid cursor position (l, c) splits line l into *)
(* the characters before column c and those from column c on, and returns  *)
(* [MoveDown, MoveToLineStart]; applied to a cursor at (l, c) with nothing  *)
(* in between, these leave it at (l+1, 0).                                 *)
C9_InsertNewline ==
    (Called("Buffer", "InsertNewline") /\ ValidPosition(pre.rope, EvPos(event.ev))) =>
        LET l == event.ev.line
            c == event.ev.col
            ln == LineOf(pre.rope, l)
        IN  /\ status = "ok"
            /\ Split(rope) = ReplaceLine(Split(pre.rope), l,
                                         <<SubSeq(ln, 1, c), SubSeq(ln, c + 1, Len(ln))>>)
            /\ out = <<MoveDown, MoveToLineStart>>
            /\ ApplyCursorEvents(EvPos(event.ev), out, rope) = Position_new(l + 1, 0)

\* a line was split in the middle
C9_Witness ==
    /\ Handled("Buffer", "InsertNewline")
    /\ pre.rope = <<"a", "a">>
    /\ EvPos(event.ev) = Position_new(0, 1)
    /\ rope = <<"a", NL, "a">>
    /\ out = <<MoveDown, MoveToLineStart>>

-----------------------------------------------------------------------------
(* Properties of the cursor, over the last call: `pre.position` is the     *)
(* cursor before the call and `position` the cursor after it; the text is  *)
(* the same before and after.                                              *)

(* C13.  For every text and every position on one of its lines,            *)
(* max_visible_col(position) is the number of characters of that line      *)
(* before its line break (0 for an empty line), and                        *)
(* clamp_col_position(position) is min(position.col, max_visible_col),     *)
(* which lies between 0 and max_visible_col(position).                     *)
C13_MaxVisibleCol ==
    LET lines == Split(rope)
    IN  \A l \in 0..(Len(lines) - 1), c \in 0..(MaxLen + 1) :
            LET pos == Position_new(l, c)
                max_col == max_visible_col(rope, pos)
                clamped == clamp_col_position(rope, pos)
            IN  /\ ~LineOutOfBounds(rope, l)
                /\ max_col = Len(lines[l + 1])
                /\ clamped = Min(c, Len(lines[l + 1]))
                /\ clamped \in 0..max_col

\* a column past the end of a line that ends with a line break was clamped
C13_Witness ==
    /\ Handled("Cursor", "SetColPosition")
    /\ rope = <<"a", NL>>
    /\ event.ev.col = 2
    /\ clamp_col_position(rope, Position_new(0, 2)) = 1
    /\ position = Position_new(0, 1)

(* C14.  MoveRight adds one to the column when col < max_visible_col of    *)
(* the cursor's line and otherwise leaves the position as it is; MoveLeft  *)
(* takes one from the column when col > 0 and otherwise leaves the         *)
(* position as it is; neither changes the line.                            *)
C14_MoveLeftRight ==
    /\ (Called("Cursor", "MoveRight") /\ HasLine(rope, pre.position.line)) =>
          /\ status = "ok"
          /\ position = IF pre.position.col < VisibleLen(rope, pre.position.line)
                        THEN Position_new(pre.position.line, pre.position.col + 1)
                        ELSE pre.position
    /\ Called("Cursor", "MoveLeft") =>
          /\ status = "ok"
          /\ position = IF pre.position.col > 0
                        THEN Position_new(pre.position.line, pre.position.col - 1)
                        ELSE pre.position

\* MoveRight at the end of a line that ends with a line break left the cursor there
C14_Witness ==
    /\ Handled("Cursor", "MoveRight")
    /\ rope = <<"a", NL>>
    /\ pre.position = Position_new(0, 1)
    /\ position = Position_new(0, 1)

(* C15.  MoveDown goes to line+1 when line+1 < len_lines and MoveUp to     *)
(* line-1 when line > 0, otherwise the position is unchanged; when the     *)
(* line changes the column becomes min(old column, max_visible_col of the  *)
(* new line).  The column lost is not restored: from a valid position,     *)
(* MoveDown then MoveUp comes back to the line with the clamped column.    *)
C15_MoveUpDown ==
    /\ Called("Cursor", "MoveDown") =>
          /\ status = "ok"
          /\ position = IF pre.position.line + 1 < Len(Split(rope))
                        THEN Position_new(pre.position.line + 1,
                                          Min(pre.position.col,
                                              VisibleLen(rope, pre.position.line + 1)))
                        ELSE pre.position
    /\ (Called("Cursor", "MoveUp")
          /\ (pre.position.line = 0 \/ HasLine(rope, pre.position.line - 1))) =>
          /\ status = "ok"
          /\ position = IF pre.position.line > 0
                        THEN Position_new(pre.position.line - 1,
                                          Min(pre.position.col,
                                              VisibleLen(rope, pre.position.line - 1)))
                        ELSE pre.position
    /\ (ValidPosition(rope, position) /\ HasLine(rope, position.line + 1)) =>
          ApplyCursorEvents(position, <<MoveDown, MoveUp>>, rope)
              = Position_new(position.line,
                             Min(position.col, VisibleLen(rope, position.line + 1)))

\* MoveDown from column 2 onto an empty line clamped the column to 0, and MoveUp
\* from there does not bring column 2 back
C15_Witness ==
    /\ Handled("Cursor", "MoveDown")
    /\ rope = <<"a", "a", NL>>
    /\ pre.position = Position_new(0, 2)
    /\ position = Position_new(1, 0)
    /\ Cursor_handle_event(position, MoveUp, rope) = Position_new(0, 0)

(* C16.  SetPosition{line, col} leaves the cursor at (l, min(col,          *)
(* max_visible_col of l)) with l = min(line, len_lines - 1);               *)
(* SetLinePosition(line) sets the line to min(line, len_lines - 1) and     *)
(* clamps the current column to that line; SetColPosition(col) sets the    *)
(* column to min(col, max_visible_col of the cursor's line) and leaves the *)
(* line as it is.                                                          *)
C16_SetPosition ==
    LET l == Min(event.ev.line, Len(Split(rope)) - 1)
    IN  /\ Called("Cursor", "SetPosition") =>
              /\ status = "ok"
              /\ position = Position_new(l, Min(event.ev.col, VisibleLen(rope, l)))
        /\ Called("Cursor", "SetLinePosition") =>
              /\ status = "ok"
              /\ position = Position_new(l, Min(pre.position.col, VisibleLen(rope, l)))
        /\ (Called("Cursor", "SetColPosition") /\ HasLine(rope, pre.position.line)) =>
              /\ status = "ok"
              /\ position = Position_new(pre.position.line,
                                         Min(event.ev.col,
                                             VisibleLen(rope, pre.position.line)))

\* SetPosition beyond the last line and beyond its end was clamped to both
C16_Witness ==
    /\ Handled("Cursor", "SetPosition")
    /\ rope = <<"a", NL>>
    /\ event.ev.line = 2
    /\ event.ev.col = 2
    /\ position = Position_new(1, 0)

(* C17.  MoveToLineStart sets the column to 0 and MoveToLineEnd sets it to *)
(* max_visible_col of the cursor's line; both leave the line as it is.     *)
C17_MoveToLineStartEnd ==
    /\ Called("Cursor", "MoveToLineStart") =>
          /\ status = "ok"
          /\ position = Position_new(pre.position.line, 0)
    /\ (Called("Cursor", "MoveToLineEnd") /\ HasLine(rope, pre.position.line)) =>
          /\ status = "ok"
          /\ position = Position_new(pre.position.line,
                                     VisibleLen(rope, pre.position.line))

\* MoveToLineEnd on a line that ends with a line break stopped before the break
C17_Witness ==
    /\ Handled("Cursor", "MoveToLineEnd")
    /\ rope = <<"a", NL>>
    /\ pre.position = Position_new(0, 0)
    /\ position = Position_new(0, 1)

-----------------------------------------------------------------------------
(* Properties of the mode handlers, over the last call *)

(* C20.  In Insert mode, with p the cursor position handed to the handler: *)
(* Esc emits [MoveLeft, ChangeToMode(Normal)] in that order; a character   *)
(* key c emits [InsertChar{c, p}]; Backspace emits [DeleteChar{p}]; Enter  *)
(* emits [InsertNewline{p}]; Left, Right, Up and Down emit the one         *)
(* matching CursorEvent; every other key emits nothing.                    *)
C20_InsertModeKeys ==
    (event.ev.kind = "Key" /\ pre.mode = "Insert") =>
        LET key == event.ev
            p == pre.position
        IN  /\ key.op = "Esc" => out = <<MoveLeft, ChangeToMode("Normal", FALSE)>>
            /\ key.op = "Char" => out = <<InsertChar(key.arg, p)>>
            /\ key.op = "Backspace" => out = <<DeleteChar(p)>>
            /\ key.op = "Enter" => out = <<InsertNewline(p)>>
            /\ key.op = "Left" => out = <<MoveLeft>>
            /\ key.op = "Right" => out = <<MoveRight>>
            /\ key.op = "Up" => out = <<MoveUp>>
            /\ key.op = "Down" => out = <<MoveDown>>
            /\ key.op \notin {"Esc", "Char", "Backspace", "Enter", "Left", "Right",
                               "Up", "Down"} => out = <<>>

\* Esc was pressed in Insert mode with the cursor at (1, 2)
C20_Witness ==
    /\ event.ev = Key("Esc", "", FALSE)
    /\ pre.mode = "Insert"
    /\ pre.position = Position_new(1, 2)
    /\ out = <<MoveLeft, ChangeToMode("Normal", FALSE)>>

(* C21.  In Visual mode Esc emits exactly [ChangeToMode(Normal)] and every *)
(* other key emits no event: the handler returns no BufferEvent and no     *)
(* CursorEvent, and the call leaves the text, the cursor and the mode as   *)
(* they were.                                                              *)
C21_VisualModeKeys ==
    (event.ev.kind = "Key" /\ pre.mode = "Visual") =>
        /\ event.ev.op = "Esc" => out = <<ChangeToMode("Normal", FALSE)>>
        /\ event.ev.op # "Esc" => out = <<>>
        /\ \A i \in 1..Len(out) : out[i].kind \notin {"Buffer", "Cursor"}
        /\ rope = pre.rope
        /\ position = pre.position
        /\ mode = "Visual"

\* the key h, a cursor move in Normal mode, was pressed in Visual mode
C21_Witness ==
    /\ event.ev = Key("Char", "h", FALSE)
    /\ pre.mode = "Visual"
    /\ mode = "Visual"
    /\ out = <<>>

-----------------------------------------------------------------------------
(* Properties of the handlers side by side, over the last call *)

-----------------------------------------------------------------------------
(* Properties of the file and of the filename prompt, over the last call *)

(* C24.  FileEvent::Save when no path is set returns exactly               *)
(* [ChangeFocus(FilenamePrompt)], writes nothing and leaves the path       *)
(* unset.  Save when a path is set tries the write once and returns no     *)
(* follow-up event whether the write succeeds or fails: the handler        *)
(* returns normally, keeps the path, and nothing it returns asks for the   *)
(* write again.                                                            *)
C24_SaveFollowUps ==
    Called("File", "Save") =>
        /\ status = "ok"
        /\ running
        /\ path = pre.path
        /\ ~pre.path.some =>
                /\ out = <<ChangeFocus("FilenamePrompt")>>
                /\ path = None
                /\ io = "none"
        /\ pre.path.some =>
                /\ out = <<>>
                /\ io \in {"ok", "err"}

\* Save was applied with the path "f" set and the write failed
C24_Witness ==
    /\ Called("File", "Save")
    /\ pre.path = Some("f")
    /\ io = "err"
    /\ out = <<>>
    /\ status = "ok"

(* C25.  In the filename prompt a character key appends its character to   *)
(* the input and Backspace removes the last character of the input (no     *)
(* change when it is empty), both returning nothing; Esc clears the input  *)
(* and returns [ChangeFocus(Editor)]; Enter with a non-empty input returns *)
(* [SaveAs(input), ChangeFocus(Editor)] in that order and clears the       *)
(* input; Enter with an empty input and every other key return nothing     *)
(* and leave the input as it was.                                          *)
C25_FilenamePromptKeys ==
    event.ev.kind = "Key" =>
        LET key == event.ev
            old == pre.input
        IN  /\ key.op = "Char" => input = old \o key.arg /\ out = <<>>
            /\ (key.op = "Backspace" /\ old = "") => input = "" /\ out = <<>>
            /\ (key.op = "Backspace" /\ old # "") =>
                    /\ Len(input) = Len(old) - 1
                    /\ \E c \in NameChars : input \o c = old
                    /\ out = <<>>
            /\ key.op = "Esc" => input = "" /\ out = <<ChangeFocus("Editor")>>
            /\ (key.op = "Enter" /\ old # "") =>
                    /\ input = ""
                    /\ out = <<SaveAs(old), ChangeFocus("Editor")>>
            /\ (key.op = "Enter" /\ old = "") => input = "" /\ out = <<>>
            /\ key.op \notin {"Char", "Backspace", "Esc", "Enter"} =>
                    input = old /\ out = <<>>

\* Enter was pressed with the input "fg"
C25_Witness ==
    /\ event.ev = Key("Enter", "", FALSE)
    /\ pre.input = "fg"
    /\ input = ""
    /\ out = <<SaveAs("fg"), ChangeFocus("Editor")>>


(* C34.  len_lines() is at least 1 whatever the text; InsertNewline makes  *)
(* it one more, DeleteChar at column 0 of a line > 0 one less, and         *)
(* InsertChar of a character that is no line break and DeleteChar at a     *)
(* column > 0 within the visible length of its line leave it as it was.    *)
C34_LineCount ==
    /\ len_lines(rope) >= 1
    /\ Handled("Buffer", "InsertNewline") =>
          len_lines(rope) = len_lines(pre.rope) + 1
    /\ (Handled("Buffer", "DeleteChar") /\ event.ev.col = 0 /\ event.ev.line > 0) =>
          len_lines(rope) = len_lines(pre.rope) - 1
    /\ (Handled("Buffer", "InsertChar") /\ event.ev.arg # NL) =>
          len_lines(rope) = len_lines(pre.rope)
    /\ (/\ Handled("Buffer", "DeleteChar")
        /\ event.ev.col > 0
        /\ event.ev.col <= VisibleLen(pre.rope, event.ev.line)) =>
          len_lines(rope) = len_lines(pre.rope)

\* the last of three lines was joined to the one above: two lines are left
C34_Witness ==
    /\ Handled("Buffer", "DeleteChar")
    /\ event.ev.col = 0
    /\ event.ev.line = 2
    /\ len_lines(pre.rope) = 3
    /\ len_lines(rope) = 2
    /\ Len(Split(rope)) = 2


(* C36.  SaveAs(path) sets the file path to path before it writes and      *)
(* keeps it when the write fails; a path that is set is never unset, and   *)
(* a Save with a path set returns no ChangeFocus(FilenamePrompt).          *)
C36_PathStaysSet ==
    /\ Handled("File", "SaveAs") =>
          /\ path = Some(event.ev.arg)
          /\ io \in {"ok", "err"}
          /\ out = <<>>
    /\ pre.path.some => path.some
    /\ (Handled("File", "Save") /\ pre.path.some) =>
          /\ path = pre.path
          /\ \A i \in 1..Len(out) : out[i] # ChangeFocus("FilenamePrompt")

\* the write of a SaveAs failed on a file that had no path: the file has the
\* new path all the same
C36_Witness ==
    /\ Handled("File", "SaveAs")
    /\ event.ev.arg = "g"
    /\ pre.path = None
    /\ io = "err"
    /\ path = Some("g")
    /\ out = <<>>

====
